---- MODULE Spec2Model ----
(***************************************************************************)
(* The research pipeline of doppiozero: the node graph wired in            *)
(* agents/gh_deep_search.py (Initial -> Clarify -> Plan -> Retrieve ->     *)
(* Report -> Verify / Compact -> End) run over the node classes of         *)
(* doppiozero/nodes (researcher.py, clarifier.py, planner.py,              *)
(* retriever.py, parallel_retriever.py, reporter.py, claim_verifier.py,    *)
(* parallel_verifier.py, context_compacter.py, end.py).                    *)
(*                                                                         *)
(* One action is one node execution: prep, exec (or exec_fallback) and     *)
(* post, followed by the engine's edge lookup.  The collaborators (search, *)
(* fetch, LLM) are the environment: what they answer is chosen with \E     *)
(* from the bounded sets below.                                            *)
(*                                                                         *)
(* Values.  A URL is a number 1..NumUrls and NoUrl stands for a result     *)
(* without one.  A summary is Empty or a text; a conversation is Empty     *)
(* ({}), a fetched body, or Essential (the stripped dict the compacter     *)
(* leaves).  Two texts and two bodies are told apart so that an overwrite  *)
(* shows.  Scores are tenths (9 is 0.9).  The search_mode tag of a hit is  *)
(* never read by any node and is left out.                                 *)
(***************************************************************************)
EXTENDS Integers, Sequences, FiniteSets, TLC

\* ---- bounds of the model -------------------------------------------------
MaxDepthBound == 2
NumUrls == 4
MaxSearchResults == 1
MaxClaims == 2
NumMergeUrls == 2
MaxMemory == 1
MaxResults == 2
MaxInvocations == 2
MaxPhaseHits == 12
PhaseBatch == 4
MaxRequestLen == 2
MaxFound == 1
MaxStartDepth == 1
MaxEvidence == 1
NumExecUrls == 2

MaxSegments == 3
MaxQueryLen == 3
MaxSearches == 2
MaxRejections == 2

\* ---- program constants ---------------------------------------------------
DefaultScore == 9
MaxCompactionAttempts == 3
SmallMemory == 3
SummaryBonus == 100
NoUrl == 0
CompactionSleepSeconds == 60

\* AnswererNode: the defaults of its size limits and the length of the notice
\* that heads a compacted context.
MAX_CONTEXT_CHARS == 8000
BASE_MAX_TOKENS == 1024
MAX_DOUBLED_TOKENS == 2048
NoticeLen == 84

\* SearcherNode: the attempts of a search, the base backoff and the largest
\* jitter in tenths of a second, the longest normalised query, the number of
\* recent queries kept.
SearchAttempts == 3
BaseBackoffTenths == 10
JitterTenths == 4
NormalizedMax == 140
RecentQueriesMax == 20

\* ---- values --------------------------------------------------------------
Empty == ""
InitialSummary == "placeholder summary"
SearchSummary == "indexed summary"
Full == "body"
OtherBody == "other body"
Essential == "essential"
Urls == 1..NumUrls
SearchScores == {3}

\* ---- sequences -----------------------------------------------------------
BoundedSeq(S, n) == UNION {[1..k -> S] : k \in 0..n}

RECURSIVE Flatten(_)
Flatten(ss) == IF ss = <<>> THEN <<>> ELSE Head(ss) \o Flatten(Tail(ss))

UrlsOf(h) == {h[i].url : i \in DOMAIN h}

LastIndexOf(h, u) == CHOOSE i \in DOMAIN h :
                        /\ h[i].url = u
                        /\ \A j \in DOMAIN h : h[j].url = u => j <= i

Hit(u, s, c, n) == [url |-> u, summary |-> s, conversation |-> c, score |-> n]

VARIABLES
    current,                      \* the node the engine runs next ("none": the run is over)
    executed,                     \* the node the engine ran last
    last_action,                  \* the token its post returned
    aborted,                      \* an exception left the run
    request, collection,          \* the arguments of the call: the request text and
                                  \* options["collection"]
    max_depth, parallel,          \* options of the run
    hits, notes, search_queries,  \* shared["memory"]
    clarifications,
    next_search_plans,
    current_depth,
    compaction_attempts,
    claim_verification_completed,
    claim_verification,
    unsupported_claims,
    draft_answer,
    last_context_error,
    final_report,
    retrieved,                    \* exec_res of the Retriever execution just made
    proceeded,                    \* history: Compact has returned proceed_anyway in this run
    llm_error,                    \* the exception the last reasoning call raised, if any
    slept,                        \* backoff sleeps made so far (time.sleep calls)
    compacted_len,                \* history: len(hits) at the end of the last compaction pass
    returned,                     \* what start_github_deep_research_agent returned
    log,                          \* the calls and effects of the step just made, in the
                                  \* order the code makes them
    context, answer, answer_ls,   \* the shared store of the supervised research agent
    search_query,
    recent_queries                \* SearcherNode._recent_queries (a class attribute)

vars == <<current, executed, last_action, aborted, request, collection, max_depth,
          parallel, hits, notes,
          search_queries, clarifications, next_search_plans, current_depth,
          compaction_attempts, claim_verification_completed, claim_verification,
          unsupported_claims, draft_answer, last_context_error, final_report,
          retrieved, proceeded, llm_error, slept, compacted_len, returned, log,
          context, answer, answer_ls, search_query, recent_queries>>

\* The part of the state the supervised research agent owns.
supervisor_vars == <<context, answer, answer_ls, search_query, recent_queries>>

Unset == "unset"

\* A key shared does not hold is the empty sequence, a record it holds is <<record>>.
None == <<>>

Some(x) == <<x>>

\* No supervised research agent has run: its store is empty and the Searcher
\* class has recorded no query.
SupervisorIdle ==
    /\ context = <<>>
    /\ answer = [kind |-> "absent", text |-> <<>>]
    /\ answer_ls = <<>>
    /\ search_query = <<>>
    /\ recent_queries = <<>>

\* ---- the engine ----------------------------------------------------------
\* Successors with the proceed_anyway edge of the compaction node led to the
\* end node.
SuccessorsProceedToEnd ==
    (<<"Initial", "default">> :> "Clarify") @@
    (<<"Clarify", "default">> :> "Plan") @@
    (<<"Plan", "default">> :> "Retrieve") @@
    (<<"Retrieve", "continue">> :> "Plan") @@
    (<<"Retrieve", "final">> :> "Report") @@
    (<<"Report", "verify">> :> "Verify") @@
    (<<"Report", "complete">> :> "End") @@
    (<<"Verify", "ok">> :> "Report") @@
    (<<"Verify", "fix">> :> "Plan") @@
    (<<"Report", "compact">> :> "Compact") @@
    (<<"Compact", "retry">> :> "Report") @@
    (<<"Compact", "proceed_anyway">> :> "End") @@
    (<<"Report", "default">> :> "End")

\* Successors with the complete edge of the report node led back to it.
SuccessorsCompleteLoops ==
    (<<"Initial", "default">> :> "Clarify") @@
    (<<"Clarify", "default">> :> "Plan") @@
    (<<"Plan", "default">> :> "Retrieve") @@
    (<<"Retrieve", "continue">> :> "Plan") @@
    (<<"Retrieve", "final">> :> "Report") @@
    (<<"Report", "verify">> :> "Verify") @@
    (<<"Report", "complete">> :> "Report") @@
    (<<"Verify", "ok">> :> "Report") @@
    (<<"Verify", "fix">> :> "Plan") @@
    (<<"Report", "compact">> :> "Compact") @@
    (<<"Compact", "retry">> :> "Report") @@
    (<<"Compact", "proceed_anyway">> :> "Report") @@
    (<<"Report", "default">> :> "End")

\* The edge table built by start_github_deep_research_agent: (node, action)
\* to the next node; a plain next() is the node's "default" edge.
Successors ==
    (<<"Initial", "default">> :> "Clarify") @@
    (<<"Clarify", "default">> :> "Plan") @@
    (<<"Plan", "default">> :> "Retrieve") @@
    (<<"Retrieve", "continue">> :> "Plan") @@
    (<<"Retrieve", "final">> :> "Report") @@
    (<<"Report", "verify">> :> "Verify") @@
    (<<"Report", "complete">> :> "End") @@
    (<<"Verify", "ok">> :> "Report") @@
    (<<"Verify", "fix">> :> "Plan") @@
    (<<"Report", "compact">> :> "Compact") @@
    (<<"Compact", "retry">> :> "Report") @@
    (<<"Compact", "proceed_anyway">> :> "Report") @@
    (<<"Report", "default">> :> "End")

\* Edge resolution of the flow: the edge of the token when the node has one,
\* else the node's default edge, else the run is over.
GetNextNode(node, token) ==
    IF <<node, token>> \in DOMAIN Successors THEN Successors[<<node, token>>]
    ELSE IF <<node, "default">> \in DOMAIN Successors THEN Successors[<<node, "default">>]
    ELSE "none"

\* An exception that leaves a node's exec and has no fallback: the run is over
\* and the error is the caller's.
Abort(node) ==
    /\ executed' = node
    /\ current' = "none"
    /\ aborted' = TRUE
    /\ UNCHANGED last_action

\* One step of the flow's loop after the node returned `token`.
Orch(node, token) ==
    /\ executed' = node
    /\ last_action' = token
    /\ current' = GetNextNode(node, token)
    /\ aborted' = FALSE

\* ---- start ---------------------------------------------------------------
\* One entry of the log: what was done and on what.
Event(op, arg) == [op |-> op, arg |-> arg]

\* A request is a text, a sequence of characters: blanks and letters.
Requests == BoundedSeq({" ", "q"}, MaxRequestLen)

ValidRequest == <<"q">>

\* options["collection"]: the key is absent, or holds None, or holds a name.
Collections == {Unset, "None", "conversations"}

GivenCollection == "conversations"

\* str.strip(): the text without its leading and trailing blanks.
RECURSIVE Strip(_)
Strip(text) ==
    IF text = <<>> THEN text
    ELSE IF Head(text) = " " THEN Strip(Tail(text))
    ELSE IF text[Len(text)] = " " THEN Strip(SubSeq(text, 1, Len(text) - 1))
    ELSE text

\* EmptyRequest without the strip: only the empty text is refused.
EmptyRequestUnstripped(text) == text = <<>>

\* The first test of the validation: not request or not request.strip().
EmptyRequest(text) == text = <<>> \/ Strip(text) = <<>>

\* The validation: the message of the ValueError it raises, or None.
Validate(text, coll) ==
    IF EmptyRequest(text) THEN Some("Empty request provided")
    ELSE IF coll = Unset THEN Some("Collection is required")
    ELSE None

\* What start_github_deep_research_agent does after the validation, in order:
\* the error leaves the function, or shared is created, the nodes are built
\* and wired, and the flow is run.
StartLog(error) ==
    IF error # None THEN <<Event("raise", error[1])>>
    ELSE <<Event("shared", "created"), Event("nodes", "built"), Event("nodes", "wired"),
           Event("flow", "run")>>

Init ==
    /\ current = "Initial"
    /\ executed = "none"
    /\ last_action = "none"
    /\ aborted = FALSE
    /\ request = ValidRequest
    /\ collection = GivenCollection
    /\ max_depth \in 0..MaxDepthBound
    /\ parallel \in BOOLEAN
    /\ hits = <<>>
    /\ notes = <<>>
    /\ search_queries = <<>>
    /\ clarifications = Unset
    /\ next_search_plans = <<>>
    /\ current_depth = 0
    /\ compaction_attempts = 0
    /\ claim_verification_completed = FALSE
    /\ claim_verification = None
    /\ unsupported_claims = <<>>
    /\ draft_answer = Unset
    /\ last_context_error = None
    /\ final_report = None
    /\ retrieved = <<>>
    /\ proceeded = FALSE
    /\ llm_error = None
    /\ slept = 0
    /\ compacted_len = None
    /\ returned = Unset
    /\ SupervisorIdle
    /\ log = <<>>

\* ---- InitialResearchNode -------------------------------------------------
\* What one pass can contribute: the results of one search that have a URL
\* and whose conversation could be fetched, each with the placeholder
\* summary (the run sets no summary prompt) and the search's score.
InitialHits == {Hit(u, InitialSummary, Full, DefaultScore) : u \in Urls}

InitialPassResults == BoundedSeq(InitialHits, MaxSearchResults)

\* all_hit_ls: the hits of every pass, appended in order.
InitialResearchExec(pass_ls) == Flatten(pass_ls)

InitialResearch ==
    /\ current = "Initial"
    /\ \E pass_ls \in [1..max_depth -> InitialPassResults] :
          hits' = InitialResearchExec(pass_ls)
    /\ notes' = <<>>
    /\ search_queries' = <<1>>
    /\ Orch("Initial", "none")
    /\ retrieved' = <<>>
    /\ UNCHANGED supervisor_vars
    /\ log' = <<>>
    /\ UNCHANGED <<request, collection, max_depth, parallel, clarifications, next_search_plans, current_depth,
                   compaction_attempts, claim_verification_completed, claim_verification,
                   unsupported_claims, draft_answer, last_context_error, final_report,
                   proceeded, llm_error, slept,
                   compacted_len, returned>>

\* ---- ClarifierNode -------------------------------------------------------
Clarify ==
    /\ current = "Clarify"
    /\ clarifications' = "text"
    /\ Orch("Clarify", "none")
    /\ retrieved' = <<>>
    /\ UNCHANGED supervisor_vars
    /\ log' = <<>>
    /\ UNCHANGED <<request, collection, max_depth, parallel, hits, notes, search_queries, next_search_plans,
                   current_depth, compaction_attempts, claim_verification_completed,
                   claim_verification, unsupported_claims, draft_answer,
                   last_context_error, final_report, proceeded, llm_error, slept,
                   compacted_len, returned>>

\* ---- PlannerNode ---------------------------------------------------------
\* What the fast model can answer to the claim-research prompt: a JSON object
\* with a query, the JSON text null, or text that is no JSON (also what a
\* failed call leaves).
PlannerResponses == {"query object", "null", "no json"}

\* The claim-focused branch of prep: json.loads of the answer, or the raw
\* text as the query.
ClaimPlan(resp) ==
    IF resp = "query object" THEN "claims"
    ELSE IF resp = "null" THEN "None"
    ELSE "raw"

\* prep: the claim-focused plan when unsupported claims are pending, else
\* None once the depth is used up, else the generic query templates.
PlannerPrep(resp) ==
    IF unsupported_claims # <<>> THEN ClaimPlan(resp)
    ELSE IF current_depth >= max_depth THEN "None"
    ELSE "request"

\* exec: one search plan per configured search mode (semantic, keyword).
PlannerExec(plan) ==
    IF plan = "None" THEN <<>>
    ELSE <<[tool |-> "semantic", query |-> plan], [tool |-> "keyword", query |-> plan]>>

\* PlannerPost naming the next node in place of returning nothing.
PlannerPostNamesRetrieve(prep_res) == IF prep_res = "None" THEN "final" ELSE "retrieve"

\* post: "final" when prep gave no plan, else nothing.
PlannerPost(prep_res) == IF prep_res = "None" THEN "final" ELSE "none"

\* prep, exec and post of one execution.
PlannerRun(resp) ==
    LET prep_res == PlannerPrep(resp)
    IN  /\ next_search_plans' = IF prep_res = "None" THEN next_search_plans
                                ELSE PlannerExec(prep_res)
        /\ last_action' = PlannerPost(prep_res)

Plan ==
    /\ current = "Plan"
    /\ \E resp \in PlannerResponses : PlannerRun(resp)
    /\ executed' = "Plan"
    /\ current' = GetNextNode("Plan", last_action')
    /\ aborted' = FALSE
    /\ retrieved' = <<>>
    /\ UNCHANGED supervisor_vars
    /\ log' = <<>>
    /\ UNCHANGED <<request, collection, max_depth, parallel, hits, notes, search_queries, clarifications,
                   current_depth, compaction_attempts, claim_verification_completed,
                   claim_verification, unsupported_claims, draft_answer,
                   last_context_error, final_report, proceeded, llm_error, slept,
                   compacted_len, returned>>

\* ---- RetrieverNode -------------------------------------------------------
\* MergeHit without the URL lookup: every result with a URL is appended.
MergeHitNoDedup(acc, new_hit) ==
    IF new_hit.url = NoUrl THEN acc
    ELSE [hits |-> Append(acc.hits, new_hit), added |-> acc.added + 1]

\* MergeHit with last-write-wins: a non-empty new field replaces the old one.
MergeHitLastWrite(acc, new_hit) ==
    IF new_hit.url = NoUrl THEN acc
    ELSE IF new_hit.url \notin UrlsOf(acc.hits)
    THEN [hits |-> Append(acc.hits, new_hit), added |-> acc.added + 1]
    ELSE LET i == LastIndexOf(acc.hits, new_hit.url)
             existing == acc.hits[i]
             s == IF new_hit.summary # Empty THEN new_hit.summary ELSE existing.summary
             c == IF new_hit.conversation # Empty
                  THEN new_hit.conversation ELSE existing.conversation
         IN  [hits |-> [acc.hits EXCEPT ![i] = [existing EXCEPT !.summary = s,
                                                              !.conversation = c]],
              added |-> acc.added]

\* MergeHit without the guard on a missing URL: the result is taken as new.
MergeHitKeepsNoUrl(acc, new_hit) ==
    IF new_hit.url \notin UrlsOf(acc.hits)
    THEN [hits |-> Append(acc.hits, new_hit), added |-> acc.added + 1]
    ELSE acc

\* MergeHit putting a new hit in front of the memory.
MergeHitPrepends(acc, new_hit) ==
    IF new_hit.url = NoUrl THEN acc
    ELSE IF new_hit.url \notin UrlsOf(acc.hits)
    THEN [hits |-> <<new_hit>> \o acc.hits, added |-> acc.added + 1]
    ELSE acc

\* The merge loop of post: one result against the memory built so far.
\* acc.hits is hits_ls and acc.added is new_unique_count; the entry
\* existing_by_url_dc holds for a URL is the last hit carrying it.
MergeHit(acc, new_hit) ==
    IF new_hit.url = NoUrl THEN acc
    ELSE IF new_hit.url \notin UrlsOf(acc.hits)
    THEN [hits |-> Append(acc.hits, new_hit), added |-> acc.added + 1]
    ELSE LET i == LastIndexOf(acc.hits, new_hit.url)
             existing == acc.hits[i]
             s == IF existing.summary = Empty /\ new_hit.summary # Empty
                  THEN new_hit.summary ELSE existing.summary
             c == IF existing.conversation = Empty /\ new_hit.conversation # Empty
                  THEN new_hit.conversation ELSE existing.conversation
         IN  [hits |-> [acc.hits EXCEPT ![i] = [existing EXCEPT !.summary = s,
                                                              !.conversation = c]],
              added |-> acc.added]

RECURSIVE MergeAll(_, _)
MergeAll(acc, exec_res) ==
    IF exec_res = <<>> THEN acc
    ELSE MergeAll(MergeHit(acc, Head(exec_res)), Tail(exec_res))

Merge(hits_ls, exec_res) == MergeAll([hits |-> hits_ls, added |-> 0], exec_res)

\* RetrieverToken deciding on the depth alone.
RetrieverTokenDepthOnly(depth, new_unique_count) ==
    IF depth < max_depth THEN "continue" ELSE "final"

\* The routing decision at the end of post, on the incremented depth.
RetrieverToken(depth, new_unique_count) ==
    IF depth < max_depth /\ new_unique_count > 0 THEN "continue" ELSE "final"

\* IterationNote numbered with the depth before the increment.
IterationNoteOldDepth(prep_res, merged) ==
    [iteration |-> current_depth, queries |-> Len(prep_res),
     added |-> merged.added, total |-> Len(merged.hits)]

\* The note of one iteration.
IterationNote(prep_res, merged) ==
    [iteration |-> current_depth + 1, queries |-> Len(prep_res),
     added |-> merged.added, total |-> Len(merged.hits)]

\* prep, exec and post of one execution whose searches returned exec_res.
RetrieverRun(exec_res) ==
    LET prep_res == next_search_plans
        merged == Merge(hits, exec_res)
    IN  /\ hits' = merged.hits
        /\ search_queries' = IF prep_res # <<>>
                             THEN Append(search_queries, Len(prep_res))
                             ELSE search_queries
        /\ notes' = Append(notes, IterationNote(prep_res, merged))
        /\ current_depth' = current_depth + 1
        /\ retrieved' = exec_res
        /\ last_action' = RetrieverToken(current_depth + 1, merged.added)

\* post: one merge per joined result, in the order of exec_res.
MergeLog(exec_res) == [i \in DOMAIN exec_res |-> Event("merge", exec_res[i].url)]

\* RetrieverLog with the merges made before the searches.
RetrieverLogMergeFirst(exec_log, exec_res) == MergeLog(exec_res) \o exec_log

\* One execution in order: exec makes its calls and returns, then post
\* merges what exec returned.
RetrieverLog(exec_log, exec_res) == exec_log \o MergeLog(exec_res)

\* What the searches of one execution can return in a run of the pipeline:
\* no summary prompt is set, so a summary is the one the search gives or none.
SearchHits == {Hit(u, s, Full, n) : u \in Urls, s \in {Empty, SearchSummary},
                                    n \in SearchScores}
              \cup {Hit(NoUrl, Empty, Empty, n) : n \in SearchScores}

SearchResults == BoundedSeq(SearchHits, MaxSearchResults)

\* One execution in the flow, its searches returning one of `results`.
RetrieveFrom(results) ==
    /\ current = "Retrieve"
    /\ \E exec_res \in (IF next_search_plans = <<>> THEN {<<>>} ELSE results) :
          /\ RetrieverRun(exec_res)
          /\ UNCHANGED supervisor_vars
          /\ log' = RetrieverLog(<<>>, exec_res)
    /\ executed' = "Retrieve"
    /\ current' = GetNextNode("Retrieve", last_action')
    /\ aborted' = FALSE
    /\ UNCHANGED <<request, collection, max_depth, parallel, clarifications, next_search_plans,
                   compaction_attempts, claim_verification_completed, claim_verification,
                   unsupported_claims, draft_answer, last_context_error, final_report,
                   proceeded, llm_error, slept,
                   compacted_len, returned>>

Retrieve == RetrieveFrom(SearchResults)

\* ---- FinalReportNode -----------------------------------------------------
\* An exception text is a sequence of words. What the reasoning call can
\* raise: the two recoverable texts in several spellings, and other texts.
ErrorTexts ==
    { <<"context", "too", "large">>,
      <<"rate", "limit", "exceeded">>,
      <<"HTTP", "429", "Rate", "Limit", "Exceeded">>,
      <<"limit", "rate">>,
      <<"connection", "reset">> }

\* What the reasoning call can do: answer (None), or raise with a text.
LlmOutcomes == {None} \cup {Some(e) : e \in ErrorTexts}

\* str.lower on the words of the texts.
LowerWord ==
    ("Rate" :> "rate") @@ ("Limit" :> "limit") @@ ("Exceeded" :> "exceeded") @@
    ("HTTP" :> "http")

Lower(msg) ==
    [i \in DOMAIN msg |-> IF msg[i] \in DOMAIN LowerWord THEN LowerWord[msg[i]] ELSE msg[i]]

\* phrase in msg
Contains(msg, phrase) ==
    \E k \in 0..(Len(msg) - Len(phrase)) : SubSeq(msg, k + 1, k + Len(phrase)) = phrase

context_too_large_error(msg) == Contains(Lower(msg), <<"context", "too", "large">>)

\* rate_limit_error taking the text as it is spelled.
rate_limit_error_cased(msg) == Contains(msg, <<"rate", "limit">>)

rate_limit_error(msg) == Contains(Lower(msg), <<"rate", "limit">>)

\* exec: the draft, or the marker "context_too_large" for the two recoverable
\* errors; "raise" stands for the exception leaving exec.
ReportExec(outcome) ==
    IF outcome = None THEN "draft"
    ELSE IF context_too_large_error(outcome[1]) \/ rate_limit_error(outcome[1])
    THEN "context_too_large"
    ELSE "raise"

\* ReportPost asking for the verification after every draft.
ReportPostAlwaysVerifies(exec_res) ==
    IF exec_res = "context_too_large" THEN "compact" ELSE "verify"

\* post: the token.
ReportPost(exec_res) ==
    IF exec_res = "context_too_large" THEN "compact"
    ELSE IF ~claim_verification_completed THEN "verify"
    ELSE "complete"

\* FinalReport carrying the draft the shared state held before the execution.
FinalReportStaleDraft(exec_res) ==
    [draft |-> draft_answer,
     num_conversations |-> Len(hits),
     claims_verified |-> IF claim_verification = None THEN 0
                         ELSE Len(claim_verification[1].supported_claims),
     unsupported_claims |-> unsupported_claims]

\* The record post writes into shared["final_report"].
FinalReport(exec_res) ==
    [draft |-> exec_res,
     num_conversations |-> Len(hits),
     claims_verified |-> IF claim_verification = None THEN 0
                         ELSE Len(claim_verification[1].supported_claims),
     unsupported_claims |-> unsupported_claims]

\* One execution whose reasoning call ends in one of `outcomes` and, when it
\* answers, writes one of `drafts`.
ReportDrafting(outcomes, drafts) ==
    /\ current = "Report"
    /\ \E outcome \in outcomes :
       \E text \in (IF outcome = None THEN drafts ELSE {"draft"}) :
          LET kind == ReportExec(outcome)
              exec_res == IF kind = "draft" THEN text ELSE kind
              token == ReportPost(exec_res)
          IN  /\ llm_error' = outcome
              /\ IF exec_res = "raise"
                 THEN /\ Abort("Report")
                      /\ UNCHANGED <<draft_answer, last_context_error,
                                     claim_verification_completed, final_report>>
                 ELSE /\ Orch("Report", token)
                      /\ draft_answer' = IF kind = "draft" THEN exec_res ELSE draft_answer
                      /\ last_context_error' = IF exec_res = "context_too_large"
                                               THEN outcome ELSE last_context_error
                      /\ claim_verification_completed' =
                             (claim_verification_completed \/ token = "verify")
                      /\ final_report' = IF token = "complete"
                                         THEN Some(FinalReport(exec_res))
                                         ELSE final_report
    /\ retrieved' = <<>>
    /\ UNCHANGED supervisor_vars
    /\ log' = <<>>
    /\ UNCHANGED <<request, collection, max_depth, parallel, hits, notes, search_queries, clarifications,
                   next_search_plans, current_depth, compaction_attempts,
                   claim_verification, unsupported_claims, proceeded, slept, compacted_len,
                   returned>>

\* The execution with a single draft text.
ReportWith(outcomes) == ReportDrafting(outcomes, {"draft"})

Report == ReportWith(LlmOutcomes)

\* ---- VerifierNode and ParallelClaimVerifierNode --------------------------
PlaceholderClaims == <<1, 2>>

\* prep: the claims extracted from the draft when the extraction gives any,
\* else the placeholder pair (the run sets no shared["claims"]); the parallel
\* node always takes the placeholder pair.
ExtractedClaims == {[i \in 1..k |-> i] : k \in 0..MaxClaims}

VerifierPrep(extracted) ==
    IF parallel THEN PlaceholderClaims
    ELSE IF extracted # <<>> THEN extracted
    ELSE PlaceholderClaims

\* verify_claim_against_evidence: what the LLM said about one claim.
LlmVerdicts == {"SUPPORTED", "UNSUPPORTED", "unparseable", "error"}

VerifyClaimAgainstEvidence(response) == response = "SUPPORTED"

\* The evidence gathered for one claim: the scores of its snippets, in
\* hundredths. In a run of the pipeline the claim searches find nothing.
EvidenceScores == {50, 90}

EvidenceLists == BoundedSeq(EvidenceScores, MaxEvidence)

PipelineEvidence == {<<>>}

\* exec of the sequential node: one result per claim.
VerifierExec(claims, responses, evidence) ==
    [i \in DOMAIN claims |->
        [claim |-> claims[i],
         status |-> IF VerifyClaimAgainstEvidence(responses[i]) THEN "supported"
                    ELSE "unsupported",
         evidence |-> evidence[i]]]

\* The reasoning calls of exec, one per claim, in order.
VerifierLog(claims, responses) ==
    [i \in DOMAIN claims |-> Event("verify", [claim |-> claims[i],
                                               response |-> responses[i]])]

\* exec of the parallel node: results that carry no status.
ParallelVerifierExec(claims) ==
    [i \in DOMAIN claims |-> [claim |-> claims[i], status |-> "missing"]]

\* VerifierExecFallback filing the claims as unsupported.
VerifierExecFallbackUnsupported(prep_res) ==
    [i \in DOMAIN prep_res |-> [claim |-> prep_res[i], status |-> "unsupported",
                                 evidence |-> <<>>]]

\* exec_fallback: every prepared claim inconclusive.
VerifierExecFallback(prep_res) ==
    [i \in DOMAIN prep_res |-> [claim |-> prep_res[i], status |-> "insufficient",
                                 evidence |-> <<>>]]

RECURSIVE ClaimsWithStatus(_, _)
ClaimsWithStatus(exec_res, status) ==
    IF exec_res = <<>> THEN <<>>
    ELSE (IF Head(exec_res).status = status THEN <<Head(exec_res).claim>> ELSE <<>>)
         \o ClaimsWithStatus(Tail(exec_res), status)

\* post: the record written into shared["claim_verification"].
ClaimVerification(prep_res, exec_res) ==
    [total_claims |-> Len(prep_res),
     supported_claims |-> ClaimsWithStatus(exec_res, "supported"),
     unsupported_claims |-> ClaimsWithStatus(exec_res, "contradicted"),
     insufficient_claims |-> ClaimsWithStatus(exec_res, "insufficient"),
     details |-> exec_res]

\* post: the list exposed to the planner.
ExposedUnsupported(cv) == cv.unsupported_claims

\* post: the token.
VerifierToken(cv) ==
    IF cv.unsupported_claims # <<>> \/ cv.insufficient_claims # <<>> THEN "fix" ELSE "ok"

VerifierRun(prep_res, exec_res) ==
    LET cv == ClaimVerification(prep_res, exec_res)
    IN  /\ claim_verification' = Some(cv)
        /\ unsupported_claims' = ExposedUnsupported(cv)
        /\ last_action' = VerifierToken(cv)

\* One execution with claim searches that find one of `evidence_lists`.
VerifyWith(evidence_lists) ==
    /\ current = "Verify"
    /\ \E extracted \in ExtractedClaims :
          LET prep_res == VerifierPrep(extracted)
          IN  IF parallel
              THEN /\ VerifierRun(prep_res, ParallelVerifierExec(prep_res))
                   /\ UNCHANGED supervisor_vars
                   /\ log' = <<>>
              ELSE \E raised \in BOOLEAN :
                     IF raised
                     THEN /\ VerifierRun(prep_res, VerifierExecFallback(prep_res))
                          /\ UNCHANGED supervisor_vars
                          /\ log' = <<Event("exec_fallback", "raised")>>
                     ELSE \E responses \in [DOMAIN prep_res -> LlmVerdicts],
                             evidence \in [DOMAIN prep_res -> evidence_lists] :
                             /\ VerifierRun(prep_res,
                                            VerifierExec(prep_res, responses, evidence))
                             /\ UNCHANGED supervisor_vars
                             /\ log' = VerifierLog(prep_res, responses)
    /\ executed' = "Verify"
    /\ current' = GetNextNode("Verify", last_action')
    /\ aborted' = FALSE
    /\ retrieved' = <<>>
    /\ UNCHANGED <<request, collection, max_depth, parallel, hits, notes, search_queries,
                   clarifications, next_search_plans, current_depth, compaction_attempts,
                   claim_verification_completed, draft_answer, last_context_error,
                   final_report, proceeded, llm_error, slept,
                   compacted_len, returned>>

Verify == VerifyWith(PipelineEvidence)

\* ---- ContextCompacterNode ------------------------------------------------
\* sort_conversations_by_priority: the composite of the hit at (1-based)
\* position i of hits_ls, in tenths.
Composite(hits_ls, i) ==
    (IF hits_ls[i].summary # Empty THEN SummaryBonus ELSE 0)
    + hits_ls[i].score + (Len(hits_ls) - (i - 1))

\* The place the stable descending sort gives the hit at position i.
Rank(hits_ls, i) ==
    1 + Cardinality({j \in DOMAIN hits_ls :
                        \/ Composite(hits_ls, j) > Composite(hits_ls, i)
                        \/ Composite(hits_ls, j) = Composite(hits_ls, i) /\ j < i})

SortConversationsByPriority(hits_ls) ==
    [r \in DOMAIN hits_ls |-> hits_ls[CHOOSE i \in DOMAIN hits_ls : Rank(hits_ls, i) = r]]

CeilDiv(a, b) == (a + b - 1) \div b

Max(a, b) == IF a >= b THEN a ELSE b

\* RemovalCount whose last stage keeps nothing.
RemovalCountKeepsNone(n, attempts) ==
    IF attempts = 0 THEN CeilDiv(3 * n, 10)
    ELSE IF attempts = 1 THEN CeilDiv(n, 2)
    ELSE n

\* RemovalCount rounding down.
RemovalCountFloor(n, attempts) ==
    IF attempts = 0 THEN (3 * n) \div 10
    ELSE IF attempts = 1 THEN n \div 2
    ELSE Max(0, n - Max(1, n \div 4))

\* removal_count for n hits at the given attempt: ceil(0.3 n), ceil(0.5 n),
\* then all but max(1, ceil(0.25 n)).
RemovalCount(n, attempts) ==
    IF attempts = 0 THEN CeilDiv(3 * n, 10)
    ELSE IF attempts = 1 THEN CeilDiv(n, 2)
    ELSE Max(0, n - Max(1, CeilDiv(n, 4)))

\* The stripped conversation of a hit from the second attempt on: a hit
\* without a conversation document is left as it is.
StripConversation(hit) ==
    IF hit.conversation = Empty THEN hit ELSE [hit EXCEPT !.conversation = Essential]

\* prep on a memory it does compact: sort, cut the tail, strip.
CompactHits(hits_ls, attempts) ==
    LET sorted == SortConversationsByPriority(hits_ls)
        kept == SubSeq(sorted, 1, Len(sorted) - RemovalCount(Len(sorted), attempts))
    IN  IF attempts >= 1 THEN [i \in DOMAIN kept |-> StripConversation(kept[i])]
        ELSE kept

\* CompacterPrep without the guard on a small memory.
CompacterPrepNoSmallGuard ==
    IF compaction_attempts >= MaxCompactionAttempts THEN "None" ELSE "compacted"

\* CompacterPrep without the guard on the attempts made.
CompacterPrepNoAttemptsGuard ==
    IF Len(hits) <= SmallMemory THEN "proceed_anyway" ELSE "compacted"

\* prep: None when the attempts are used up, "proceed_anyway" on a small
\* memory, else the compaction is made.
CompacterPrep ==
    IF compaction_attempts >= MaxCompactionAttempts THEN "None"
    ELSE IF Len(hits) <= SmallMemory THEN "proceed_anyway"
    ELSE "compacted"

\* CompacterPost that never asks for a retry.
CompacterPostNeverRetries(prep_res) == "proceed_anyway"

\* post: the token.
CompacterPost(prep_res) ==
    IF prep_res = "None" \/ prep_res = "proceed_anyway" THEN "proceed_anyway" ELSE "retry"

\* CompacterLog without the backoff.
CompacterLogNoSleep(prep_res, token) ==
    IF prep_res = "compacted"
    THEN <<Event("sort", Len(hits)),
           Event("remove", RemovalCount(Len(hits), compaction_attempts)),
           Event("increment", compaction_attempts + 1),
           Event("return", token)>>
    ELSE <<Event("return", token)>>

\* One execution in order: prep sorts the hits, removes the tail and, from
\* the second attempt on, strips the rest; post increments the counter,
\* sleeps compaction_sleep_seconds (the node has no params: 60) and returns.
\* Without a compaction post returns at once.
CompacterLog(prep_res, token) ==
    IF prep_res = "compacted"
    THEN <<Event("sort", Len(hits)),
           Event("remove", RemovalCount(Len(hits), compaction_attempts))>>
         \o (IF compaction_attempts >= 1 THEN <<Event("strip", Len(hits))>> ELSE <<>>)
         \o <<Event("increment", compaction_attempts + 1),
              Event("sleep", CompactionSleepSeconds),
              Event("return", token)>>
    ELSE <<Event("return", token)>>

Compact ==
    /\ current = "Compact"
    /\ LET prep_res == CompacterPrep
           token == CompacterPost(prep_res)
       IN  /\ hits' = IF prep_res = "compacted" THEN CompactHits(hits, compaction_attempts)
                      ELSE hits
           /\ compaction_attempts' = IF token = "retry" THEN compaction_attempts + 1
                                     ELSE compaction_attempts
           /\ proceeded' = (proceeded \/ token = "proceed_anyway")
           /\ slept' = IF token = "retry" THEN slept + 1 ELSE slept
           /\ compacted_len' = IF prep_res = "compacted" THEN Some(Len(hits'))
                               ELSE compacted_len
           /\ UNCHANGED supervisor_vars
           /\ log' = CompacterLog(prep_res, token)
           /\ Orch("Compact", token)
    /\ retrieved' = <<>>
    /\ UNCHANGED <<request, collection, max_depth, parallel, notes, search_queries, clarifications,
                   next_search_plans, current_depth, claim_verification_completed,
                   claim_verification, unsupported_claims, draft_answer,
                   last_context_error, final_report, llm_error, returned>>

\* ---- End -----------------------------------------------------------------
\* exec: the final report when shared has one, else the shared state itself;
\* post hands it on as the node's return value.
EndExec == IF final_report # None THEN "final_report" ELSE "shared"

\* start_github_deep_research_agent after the flow has run: flow.run(shared)
\* is a statement, its value is dropped and the function returns None.
StartResult(run_result) == "None"

End ==
    /\ current = "End"
    /\ Orch("End", EndExec)
    /\ returned' = StartResult(EndExec)
    /\ retrieved' = <<>>
    /\ UNCHANGED supervisor_vars
    /\ log' = <<>>
    /\ UNCHANGED <<request, collection, max_depth, parallel, hits, notes, search_queries, clarifications,
                   next_search_plans, current_depth, compaction_attempts,
                   claim_verification_completed, claim_verification, unsupported_claims,
                   draft_answer, last_context_error, final_report, proceeded, llm_error,
                   slept, compacted_len>>

\* ---- the run of the pipeline ---------------------------------------------
Next ==
    \/ InitialResearch
    \/ Clarify
    \/ Plan
    \/ Retrieve
    \/ Report
    \/ Verify
    \/ Compact
    \/ End

Spec == Init /\ [][Next]_vars

\* ---- the run whose report is always drafted ---------------------------------
\* The pipeline with a reasoning call of the Reporter that never fails (the
\* compaction node is then never entered). The flow's loop runs the current
\* node as long as there is one: a node that can run does run.
ReportAnswers == ReportWith({None})

LiveNext ==
    \/ InitialResearch
    \/ Clarify
    \/ Plan
    \/ Retrieve
    \/ ReportAnswers
    \/ Verify
    \/ End

LiveSpec == Init /\ [][LiveNext]_vars /\ WF_vars(LiveNext)

\* ---- the call of the entry point -------------------------------------------
\* The run from the call on, with any request and any collection option.
StartInit ==
    /\ current = "start"
    /\ executed = "none"
    /\ last_action = "none"
    /\ aborted = FALSE
    /\ request \in Requests
    /\ collection \in Collections
    /\ max_depth \in 0..MaxStartDepth
    /\ parallel \in BOOLEAN
    /\ hits = <<>>
    /\ notes = <<>>
    /\ search_queries = <<>>
    /\ clarifications = Unset
    /\ next_search_plans = <<>>
    /\ current_depth = 0
    /\ compaction_attempts = 0
    /\ claim_verification_completed = FALSE
    /\ claim_verification = None
    /\ unsupported_claims = <<>>
    /\ draft_answer = Unset
    /\ last_context_error = None
    /\ final_report = None
    /\ retrieved = <<>>
    /\ proceeded = FALSE
    /\ llm_error = None
    /\ slept = 0
    /\ compacted_len = None
    /\ returned = Unset
    /\ SupervisorIdle
    /\ log = <<>>

\* start_github_deep_research_agent up to flow.run: the validation, then the
\* set-up; the flow starts at the initial node.
Start ==
    /\ current = "start"
    /\ LET error == Validate(request, collection)
       IN  /\ UNCHANGED supervisor_vars
           /\ log' = StartLog(error)
           /\ aborted' = (error # None)
           /\ current' = IF error # None THEN "none" ELSE "Initial"
    /\ UNCHANGED <<executed, last_action, request, collection, max_depth, parallel, hits,
                   notes, search_queries, clarifications, next_search_plans, current_depth,
                   compaction_attempts, claim_verification_completed, claim_verification,
                   unsupported_claims, draft_answer, last_context_error, final_report,
                   retrieved, proceeded, llm_error, slept, compacted_len, returned>>

StartNext ==
    \/ Start
    \/ Next

StartSpec == StartInit /\ [][StartNext]_vars

\* ---- the Retriever on its own --------------------------------------------
\* The node run repeatedly on a memory with unique URLs, with searches that
\* may return anything: results without a URL, repeated URLs, URLs the
\* memory holds, with or without summary and conversation.
MergeUrls == 1..NumMergeUrls

UniqueByUrl(h) == \A i, j \in DOMAIN h : i # j => h[i].url # h[j].url

MemoryHits == {Hit(u, s, c, DefaultScore) : u \in MergeUrls, s \in {Empty, InitialSummary},
                                            c \in {Empty, Full}}

Memories == {h \in BoundedSeq(MemoryHits, MaxMemory) : UniqueByUrl(h)}

ResultHits == {Hit(u, s, c, n) : u \in MergeUrls, s \in {Empty, SearchSummary},
                                 c \in {Empty, OtherBody}, n \in SearchScores}
              \cup {Hit(NoUrl, Empty, Empty, n) : n \in SearchScores}

Results == BoundedSeq(ResultHits, MaxResults)

RetrieverInit ==
    /\ current = "Retrieve"
    /\ executed = "none"
    /\ last_action = "none"
    /\ aborted = FALSE
    /\ request = ValidRequest
    /\ collection = GivenCollection
    /\ max_depth \in 0..MaxDepthBound
    /\ parallel = FALSE
    /\ hits \in Memories
    /\ notes = <<>>
    /\ search_queries = <<1>>
    /\ clarifications = "text"
    /\ next_search_plans \in {<<>>, PlannerExec("request")}
    /\ current_depth = 0
    /\ compaction_attempts = 0
    /\ claim_verification_completed = FALSE
    /\ claim_verification = None
    /\ unsupported_claims = <<>>
    /\ draft_answer = Unset
    /\ last_context_error = None
    /\ final_report = None
    /\ retrieved = <<>>
    /\ proceeded = FALSE
    /\ llm_error = None
    /\ slept = 0
    /\ compacted_len = None
    /\ returned = Unset
    /\ SupervisorIdle
    /\ log = <<>>

RetrieveAlone ==
    /\ Len(notes) < MaxInvocations
    /\ \E exec_res \in (IF next_search_plans = <<>> THEN {<<>>} ELSE Results) :
          /\ RetrieverRun(exec_res)
          /\ UNCHANGED supervisor_vars
          /\ log' = RetrieverLog(<<>>, exec_res)
    /\ executed' = "Retrieve"
    /\ UNCHANGED <<current, aborted, request, collection, max_depth,
                   parallel, clarifications,
                   next_search_plans, compaction_attempts, claim_verification_completed,
                   claim_verification, unsupported_claims, draft_answer,
                   last_context_error, final_report, proceeded, llm_error, slept,
                   compacted_len, returned>>

RetrieverNext == RetrieveAlone

RetrieverSpec == RetrieverInit /\ [][RetrieverNext]_vars

\* ---- exec of the Retriever and of its parallel variant ----------------------
\* What a search returns for one plan is a list of found items, or the call
\* raises. A found item says what the search gives (url, summary, score) and
\* how the calls made for that item behave: the conversation fetch and the
\* summary generation each answer or raise.
ExecUrls == 1..NumExecUrls

Found == [url : {NoUrl} \cup ExecUrls, summary : {Empty, SearchSummary},
          score : SearchScores, fetch : {"ok", "raise"}, summarize : {"ok", "raise"}]

SearchOutcomes == {[raised |-> TRUE, found |-> <<>>]}
                  \cup {[raised |-> FALSE, found |-> f] : f \in BoundedSeq(Found, MaxFound)}

\* An item is named by its plan and its place in the plan's results.
Item(p, k) == <<p, k>>

Call(item, outcome) == [item |-> item, raised |-> outcome = "raise"]

\* The semantic branch for one result: a summary is generated when the hit
\* has none, a prompt is configured and the hit has a URL; a failed
\* generation leaves the hit as it is; the hit is appended.
SemanticItem(item, f, prompt) ==
    LET tries == f.summary = Empty /\ prompt /\ f.url # NoUrl
        s == IF tries /\ f.summarize = "ok" THEN InitialSummary ELSE f.summary
    IN  [res |-> <<Hit(f.url, s, Full, f.score)>>,
         log |-> (IF tries THEN <<Event("summarize", Call(item, f.summarize))>> ELSE <<>>)
                 \o <<Event("append", item)>>]

\* The keyword branch for one result: a result without a URL is passed over;
\* a failed fetch leaves the empty conversation, a failed generation the
\* empty summary; the hit is appended.
KeywordItem(item, f, prompt) ==
    IF f.url = NoUrl THEN [res |-> <<>>, log |-> <<>>]
    ELSE LET c == IF f.fetch = "ok" THEN Full ELSE Empty
             tries == f.summary = Empty /\ prompt
             s == IF tries /\ f.summarize = "ok" THEN InitialSummary ELSE f.summary
         IN  [res |-> <<Hit(f.url, s, c, f.score)>>,
              log |-> <<Event("fetch", Call(item, f.fetch))>>
                      \o (IF tries THEN <<Event("summarize", Call(item, f.summarize))>>
                          ELSE <<>>)
                      \o <<Event("append", item)>>]

\* The parallel variant: the results of the search are taken as they come.
RawItem(item, f) ==
    [res |-> <<Hit(f.url, f.summary, Empty, f.score)>>, log |-> <<Event("append", item)>>]

Join(a, b) == [res |-> a.res \o b.res, log |-> a.log \o b.log]

\* The loop over the results of plan p from place k on.
RECURSIVE PlanItems(_, _, _, _, _, _)
PlanItems(par, tool, p, k, found, prompt) ==
    IF k > Len(found) THEN [res |-> <<>>, log |-> <<>>]
    ELSE Join(IF par THEN RawItem(Item(p, k), found[k])
              ELSE IF tool = "semantic" THEN SemanticItem(Item(p, k), found[k], prompt)
              ELSE KeywordItem(Item(p, k), found[k], prompt),
              PlanItems(par, tool, p, k + 1, found, prompt))

\* One plan: a search that raises gives no results.
PlanExec(par, plans, outcomes, p, prompt) ==
    Join([res |-> <<>>,
          log |-> <<Event("search", [plan |-> p, raised |-> outcomes[p].raised])>>],
         IF outcomes[p].raised THEN [res |-> <<>>, log |-> <<>>]
         ELSE PlanItems(par, plans[p].tool, p, 1, outcomes[p].found, prompt))

\* exec: the loop over the plans from plan p on; res is the list returned.
RECURSIVE RetrieverExec(_, _, _, _, _)
RetrieverExec(par, plans, outcomes, p, prompt) ==
    IF p > Len(plans) THEN [res |-> <<>>, log |-> <<>>]
    ELSE Join(PlanExec(par, plans, outcomes, p, prompt),
              RetrieverExec(par, plans, outcomes, p + 1, prompt))

\* The node run once on a small memory, with or without plans, in both
\* variants, with or without a summary prompt.
ExecInit ==
    /\ current = "Retrieve"
    /\ executed = "Plan"
    /\ last_action = "none"
    /\ aborted = FALSE
    /\ request = ValidRequest
    /\ collection = GivenCollection
    /\ max_depth \in 1..MaxDepthBound
    /\ parallel \in BOOLEAN
    /\ hits \in {<<>>, <<Hit(1, Empty, Empty, DefaultScore)>>}
    /\ notes = <<>>
    /\ search_queries = <<1>>
    /\ clarifications = "text"
    /\ next_search_plans \in {<<>>, PlannerExec("request")}
    /\ current_depth = 0
    /\ compaction_attempts = 0
    /\ claim_verification_completed = FALSE
    /\ claim_verification = None
    /\ unsupported_claims = <<>>
    /\ draft_answer = Unset
    /\ last_context_error = None
    /\ final_report = None
    /\ retrieved = <<>>
    /\ proceeded = FALSE
    /\ llm_error = None
    /\ slept = 0
    /\ compacted_len = None
    /\ returned = Unset
    /\ SupervisorIdle
    /\ log = <<>>

RetrieveExec ==
    /\ current = "Retrieve"
    /\ \E outcomes \in [DOMAIN next_search_plans -> SearchOutcomes], prompt \in BOOLEAN :
          LET done == RetrieverExec(parallel, next_search_plans, outcomes, 1, prompt)
          IN  /\ RetrieverRun(done.res)
              /\ UNCHANGED supervisor_vars
              /\ log' = RetrieverLog(done.log, done.res)
    /\ executed' = "Retrieve"
    /\ current' = GetNextNode("Retrieve", last_action')
    /\ aborted' = FALSE
    /\ UNCHANGED <<request, collection, max_depth, parallel, clarifications,
                   next_search_plans, compaction_attempts, claim_verification_completed,
                   claim_verification, unsupported_claims, draft_answer,
                   last_context_error, final_report, proceeded, llm_error, slept,
                   compacted_len, returned>>

ExecNext == RetrieveExec

ExecSpec == ExecInit /\ [][ExecNext]_vars

\* ---- the Verifier on its own ------------------------------------------------
\* The node run once after the Reporter's first draft, with claim searches
\* that find nothing, a weak snippet or a strong one.
VerifierInit ==
    /\ current = "Verify"
    /\ executed = "Report"
    /\ last_action = "verify"
    /\ aborted = FALSE
    /\ request = ValidRequest
    /\ collection = GivenCollection
    /\ max_depth \in 0..MaxDepthBound
    /\ parallel \in BOOLEAN
    /\ hits = <<>>
    /\ notes = <<>>
    /\ search_queries = <<1>>
    /\ clarifications = "text"
    /\ next_search_plans = <<>>
    /\ current_depth = max_depth
    /\ compaction_attempts = 0
    /\ claim_verification_completed = TRUE
    /\ claim_verification = None
    /\ unsupported_claims = <<>>
    /\ draft_answer = "draft"
    /\ last_context_error = None
    /\ final_report = None
    /\ retrieved = <<>>
    /\ proceeded = FALSE
    /\ llm_error = None
    /\ slept = 0
    /\ compacted_len = None
    /\ returned = Unset
    /\ SupervisorIdle
    /\ log = <<>>

VerifyAlone == VerifyWith(EvidenceLists)

VerifierNext == VerifyAlone

VerifierSpec == VerifierInit /\ [][VerifierNext]_vars

\* ---- the report phase on a large memory -----------------------------------
\* The run from the first Reporter execution on, entered with a memory of up
\* to MaxPhaseHits hits (what the initial passes and retrievals of a run with
\* the default limit collect), and with retrievals that can bring
\* PhaseBatch new conversations at once.
PhaseHit(i, pattern) ==
    IF pattern = "initial" THEN Hit(i, InitialSummary, Full, DefaultScore)
    ELSE Hit(i, IF i % 2 = 0 THEN SearchSummary ELSE Empty,
                IF i % 3 = 0 THEN Empty ELSE Full, CHOOSE n \in SearchScores : TRUE)

PhaseMemories ==
    {[i \in 1..n |-> PhaseHit(i, pattern)] : n \in 0..MaxPhaseHits,
                                              pattern \in {"initial", "searched"}}

PhaseResults ==
    {<<>>, [i \in 1..PhaseBatch |->
               Hit(MaxPhaseHits + i, SearchSummary, Full, CHOOSE n \in SearchScores : TRUE)]}

PhaseInit ==
    /\ current = "Report"
    /\ executed = "Retrieve"
    /\ last_action = "final"
    /\ aborted = FALSE
    /\ request = ValidRequest
    /\ collection = GivenCollection
    /\ max_depth \in 1..MaxDepthBound
    /\ parallel = FALSE
    /\ hits \in PhaseMemories
    /\ current_depth \in 1..max_depth
    /\ notes = [d \in 1..current_depth |->
                   [iteration |-> d, queries |-> 2, added |-> 0, total |-> Len(hits)]]
    /\ search_queries = <<1>> \o [d \in 1..current_depth |-> 2]
    /\ clarifications = "text"
    /\ next_search_plans = PlannerExec("request")
    /\ compaction_attempts = 0
    /\ claim_verification_completed = FALSE
    /\ claim_verification = None
    /\ unsupported_claims = <<>>
    /\ draft_answer = Unset
    /\ last_context_error = None
    /\ final_report = None
    /\ retrieved = <<>>
    /\ proceeded = FALSE
    /\ llm_error = None
    /\ slept = 0
    /\ compacted_len = None
    /\ returned = Unset
    /\ SupervisorIdle
    /\ log = <<>>

RetrievePhase == RetrieveFrom(PhaseResults)

PhaseNext ==
    \/ Report
    \/ Verify
    \/ Plan
    \/ RetrievePhase
    \/ Compact
    \/ End

PhaseSpec == PhaseInit /\ [][PhaseNext]_vars

\* ---- the report phase with drafts that differ -----------------------------
\* The same phase on memories of up to MaxDraftHits conversations, every
\* answer of the Reporter being one of two draft texts.
MaxDraftHits == 4

Drafts == {"draft", "redraft"}

DraftInit == PhaseInit /\ Len(hits) <= MaxDraftHits

ReportDrafts == ReportDrafting(LlmOutcomes, Drafts)

DraftNext ==
    \/ ReportDrafts
    \/ Verify
    \/ Plan
    \/ RetrievePhase
    \/ Compact
    \/ End

DraftSpec == DraftInit /\ [][DraftNext]_vars

\* ---- the Planner on its own -----------------------------------------------
\* The node run on a shared state that holds a list of unsupported claims
\* (any list of up to MaxClaims claims, or none) at any depth.
PendingClaims == BoundedSeq(1..MaxClaims, MaxClaims)

PlannerInit ==
    /\ current = "Plan"
    /\ executed = "none"
    /\ last_action = "none"
    /\ aborted = FALSE
    /\ request = ValidRequest
    /\ collection = GivenCollection
    /\ max_depth \in 0..MaxDepthBound
    /\ parallel = FALSE
    /\ hits = <<>>
    /\ notes = <<>>
    /\ search_queries = <<1>>
    /\ clarifications = "text"
    /\ next_search_plans \in {<<>>, PlannerExec("request")}
    /\ current_depth \in 0..(MaxDepthBound + 1)
    /\ compaction_attempts = 0
    /\ claim_verification_completed \in BOOLEAN
    /\ claim_verification = None
    /\ unsupported_claims \in PendingClaims
    /\ draft_answer = Unset
    /\ last_context_error = None
    /\ final_report = None
    /\ retrieved = <<>>
    /\ proceeded = FALSE
    /\ llm_error = None
    /\ slept = 0
    /\ compacted_len = None
    /\ returned = Unset
    /\ SupervisorIdle
    /\ log = <<>>

PlannerNext == Plan

PlannerSpec == PlannerInit /\ [][PlannerNext]_vars

\* ---- the supervised research agent: texts ---------------------------------
\* A text is a sequence of characters. "x" stands for any character that is
\* no part of a marker.
Text(n) == <<>> \o [i \in 1..n |-> "x"]

SearchPrefix == <<"S", "E", "A", "R", "C", "H", ":">>

Separator == <<"\n", "\n">>

\* "\n\nSEARCH:", the text _compact_context splits on.
SearchMarker == Separator \o SearchPrefix

\* The notice header: NoticeLen characters, the last one a line feed.
Notice == Text(NoticeLen - 1) \o <<"\n">>

StartsWith(text, prefix) ==
    Len(text) >= Len(prefix) /\ SubSeq(text, 1, Len(prefix)) = prefix

MarkerAt(text, i) ==
    /\ i + Len(SearchMarker) - 1 <= Len(text)
    /\ text[i] = "\n"
    /\ SubSeq(text, i, i + Len(SearchMarker) - 1) = SearchMarker

\* Where the marker occurs; two occurrences cannot overlap.
MarkerPlaces(text) == {i \in 1..Len(text) : MarkerAt(text, i)}

RECURSIVE SplitAt(_, _, _)
SplitAt(text, from, places) ==
    IF places = {} THEN <<SubSeq(text, from, Len(text))>>
    ELSE LET i == CHOOSE p \in places : \A q \in places : p <= q
         IN  <<SubSeq(text, from, i - 1)>> \o
             SplitAt(text, i + Len(SearchMarker), places \ {i})

\* context.split("\n\nSEARCH:")
Split(text) == SplitAt(text, 1, MarkerPlaces(text))

\* The segment kept for a part: the part with "SEARCH:" before it unless it
\* starts with it.
Segment(part) == IF StartsWith(part, SearchPrefix) THEN part ELSE SearchPrefix \o part

\* The loop over reversed(parts), at part j with `total` characters kept: the
\* segments kept, in the order of the context.
RECURSIVE Rebuilt(_, _, _, _)
Rebuilt(parts, j, total, limit) ==
    IF j = 0 THEN <<>>
    ELSE LET seg == Segment(parts[j])
         IN  IF total + Len(seg) > limit THEN <<>>
             ELSE Rebuilt(parts, j - 1, total + Len(seg), limit) \o <<seg>>

\* sep.join(texts)
RECURSIVE JoinWith(_, _)
JoinWith(texts, sep) ==
    IF texts = <<>> THEN <<>>
    ELSE IF Len(texts) = 1 THEN texts[1]
    ELSE texts[1] \o sep \o JoinWith(Tail(texts), sep)

\* AnswererNode._compact_context: (compacted_context, was_compacted).
compact_context(text) ==
    IF Len(text) <= MAX_CONTEXT_CHARS
    THEN [context |-> text, was_compacted |-> FALSE]
    ELSE LET parts == Split(text)
             rebuilt_ls == Rebuilt(parts, Len(parts), 0, MAX_CONTEXT_CHARS)
             rebuilt == IF rebuilt_ls # <<>> THEN JoinWith(rebuilt_ls, Separator)
                        ELSE SubSeq(text, Len(text) - MAX_CONTEXT_CHARS + 1, Len(text))
         IN  [context |-> Notice \o rebuilt, was_compacted |-> TRUE]

\* The pipeline is not running: its variables keep the values they have
\* before a run.
PipelineIdle ==
    /\ request = ValidRequest
    /\ collection = GivenCollection
    /\ max_depth = 0
    /\ parallel = FALSE
    /\ hits = <<>>
    /\ notes = <<>>
    /\ search_queries = <<>>
    /\ clarifications = Unset
    /\ next_search_plans = <<>>
    /\ current_depth = 0
    /\ compaction_attempts = 0
    /\ claim_verification_completed = FALSE
    /\ claim_verification = None
    /\ unsupported_claims = <<>>
    /\ draft_answer = Unset
    /\ last_context_error = None
    /\ final_report = None
    /\ retrieved = <<>>
    /\ proceeded = FALSE
    /\ llm_error = None
    /\ slept = 0
    /\ compacted_len = None
    /\ returned = Unset

pipeline_vars == <<request, collection, max_depth, parallel, hits, notes, search_queries,
                   clarifications, next_search_plans, current_depth, compaction_attempts,
                   claim_verification_completed, claim_verification, unsupported_claims,
                   draft_answer, last_context_error, final_report, retrieved, proceeded,
                   llm_error, slept, compacted_len, returned>>

NoAnswer == [kind |-> "absent", text |-> <<>>]

NoneAnswer == [kind |-> "None", text |-> <<>>]

TextAnswer(text) == [kind |-> "str", text |-> text]

\* ---- the supervised research agent: the flow --------------------------------
\* The edges of the inner research flow (create_unsupervised_flow).
InnerSuccessors ==
    (<<"Decide", "search">> :> "Search") @@
    (<<"Decide", "answer">> :> "Answer") @@
    (<<"Search", "decide">> :> "Decide")

\* The edges around it (create_supervised_flow); the inner flow is one node.
OuterSuccessors ==
    (<<"AgentFlow", "default">> :> "Supervise") @@
    (<<"Supervise", "default">> :> "Terminal") @@
    (<<"Supervise", "retry">> :> "AgentFlow")

\* Edge resolution in a table: the edge of the token, else the default edge,
\* else none.
Resolve(table, node, token) ==
    IF <<node, token>> \in DOMAIN table THEN table[<<node, token>>]
    ELSE IF <<node, "default">> \in DOMAIN table THEN table[<<node, "default">>]
    ELSE "none"

\* Running the inner flow is running it from its start node.
Enter(node) == IF node = "AgentFlow" THEN "Decide" ELSE node

\* The node that runs after `node` returned `token`. An inner flow that has
\* no edge to follow is over, and its last token is what the inner flow
\* returns to the flow around it.
SupervisedNextNode(node, token) ==
    IF node \in {"Decide", "Search", "Answer"}
    THEN LET nxt == Resolve(InnerSuccessors, node, token)
         IN  IF nxt # "none" THEN nxt
             ELSE Enter(Resolve(OuterSuccessors, "AgentFlow", token))
    ELSE Enter(Resolve(OuterSuccessors, node, token))

SupervisedOrch(node, token) ==
    /\ executed' = node
    /\ last_action' = token
    /\ current' = SupervisedNextNode(node, token)
    /\ aborted' = FALSE

\* ---- AnswererNode -----------------------------------------------------------
\* What one call of the model gives back: the answer text and the finish
\* reason, lower-cased ("" when the response holds none).
AnswerTexts == {<<>>, <<" ">>, <<" ", "a">>, <<"b">>}

FinishReasons == {"stop", "length", ""}

Replies == [answer_text : AnswerTexts, finish_reason : FinishReasons]

Min(a, b) == IF a <= b THEN a ELSE b

\* _call_llm: the call as the log keeps it, with the reply it got.
LlmCall(text, max_tokens, reply) ==
    Event("generate", [context |-> text, max_tokens |-> max_tokens,
                       answer_text |-> reply.answer_text,
                       finish_reason |-> reply.finish_reason])

\* Acceptable taking a blank answer for an answer.
AcceptableUnstripped(reply) ==
    reply.finish_reason # "length" /\ reply.answer_text # <<>>

\* The test of every stage: finish_reason != "length" and answer_text.strip().
Acceptable(reply) ==
    reply.finish_reason # "length" /\ Strip(reply.answer_text) # <<>>

Returned(calls, reply) ==
    [log |-> calls \o <<Event("return", Strip(reply.answer_text))>>,
     raised |-> FALSE, res |-> Strip(reply.answer_text)]

Raised(calls) ==
    [log |-> calls \o <<Event("raise", "RuntimeError")>>, raised |-> TRUE, res |-> <<>>]

\* AnswererExec going on to the second stage after any first reply it
\* does not accept.
AnswererExecAlwaysRetries(text, replies) ==
    LET doubled_tokens == Min(MAX_DOUBLED_TOKENS, BASE_MAX_TOKENS * 2)
        c1 == LlmCall(text, BASE_MAX_TOKENS, replies[1])
        c2 == LlmCall(text, doubled_tokens, replies[2])
        c3 == LlmCall(compact_context(text).context, doubled_tokens, replies[3])
    IN  IF Acceptable(replies[1]) THEN Returned(<<c1>>, replies[1])
        ELSE IF Acceptable(replies[2]) THEN Returned(<<c1, c2>>, replies[2])
        ELSE IF Acceptable(replies[3]) THEN Returned(<<c1, c2, c3>>, replies[3])
        ELSE Raised(<<c1, c2, c3>>)

\* exec on the context `text`, the model answering call k with replies[k]:
\* the calls made, then the answer returned or the RuntimeError raised.
AnswererExec(text, replies) ==
    LET doubled_tokens == Min(MAX_DOUBLED_TOKENS, BASE_MAX_TOKENS * 2)
        c1 == LlmCall(text, BASE_MAX_TOKENS, replies[1])
        c2 == LlmCall(text, doubled_tokens, replies[2])
        c3 == LlmCall(compact_context(text).context, doubled_tokens, replies[3])
    IN  IF Acceptable(replies[1]) THEN Returned(<<c1>>, replies[1])
        ELSE IF replies[1].finish_reason = "length"
        THEN IF Acceptable(replies[2]) THEN Returned(<<c1, c2>>, replies[2])
             ELSE IF Acceptable(replies[3]) THEN Returned(<<c1, c2, c3>>, replies[3])
             ELSE Raised(<<c1, c2, c3>>)
        ELSE Raised(<<c1>>)

\* One execution, the model answering with replies of `replies_set`: prep,
\* exec and, when exec returned, post. The reply to a call that a first
\* reply rules out is not enumerated: it is never read.
AnswerWith(replies_set) ==
    /\ current = "Answer"
    /\ \E r1 \in replies_set :
       \E r2 \in (IF r1.finish_reason = "length" THEN replies_set ELSE {r1}) :
       \E r3 \in (IF r1.finish_reason = "length" /\ ~Acceptable(r2)
                  THEN replies_set ELSE {r1}) :
          LET done == AnswererExec(context, <<r1, r2, r3>>)
          IN  /\ log' = done.log
              /\ IF done.raised
                 THEN /\ Abort("Answer")
                      /\ UNCHANGED <<answer, answer_ls>>
                 ELSE /\ SupervisedOrch("Answer", "none")
                      /\ answer' = TextAnswer(done.res)
                      /\ answer_ls' = Append(answer_ls, done.res)
    /\ UNCHANGED <<context, search_query, recent_queries>>
    /\ UNCHANGED pipeline_vars

\* ---- the Answerer on its own --------------------------------------------------
\* One execution on a short context, on a long one without a marker and on
\* a long one with markers, after no answer or after a rejected one.
AnswererContexts ==
    {Text(10),
     Text(MAX_CONTEXT_CHARS + 1),
     Text(MAX_CONTEXT_CHARS + 1) \o SearchMarker \o Text(10)}

AnswererInit ==
    /\ current = "Answer"
    /\ executed = "Decide"
    /\ last_action = "answer"
    /\ aborted = FALSE
    /\ PipelineIdle
    /\ context \in AnswererContexts
    /\ \/ answer = NoAnswer /\ answer_ls = <<>>
       \/ answer = NoneAnswer /\ answer_ls = <<<<"a">>>>
    /\ search_query = <<>>
    /\ recent_queries = <<>>
    /\ log = <<>>

AnswerAlone == AnswerWith(Replies)

AnswererNext == AnswerAlone

AnswererSpec == AnswererInit /\ [][AnswererNext]_vars

\* ---- SearcherNode -----------------------------------------------------------
\* A query is a text of letters, blanks and double quotes.
Queries == BoundedSeq({"a", "A", " ", "\""}, MaxQueryLen)

RECURSIVE StripQuotes(_)
StripQuotes(text) ==
    IF text = <<>> THEN text
    ELSE IF Head(text) = "\"" THEN StripQuotes(Tail(text))
    ELSE IF text[Len(text)] = "\"" THEN StripQuotes(SubSeq(text, 1, Len(text) - 1))
    ELSE text

RECURSIVE DropBlanks(_)
DropBlanks(text) ==
    IF text # <<>> /\ Head(text) = " " THEN DropBlanks(Tail(text)) ELSE text

\* re.split(r"\s+", text), `word` being the word read so far.
RECURSIVE SplitBlanks(_, _)
SplitBlanks(text, word) ==
    IF text = <<>> THEN <<word>>
    ELSE IF Head(text) = " " THEN <<word>> \o SplitBlanks(DropBlanks(text), <<>>)
    ELSE SplitBlanks(Tail(text), Append(word, Head(text)))

\* str.lower on the letters of a word.
LowerText(word) == [i \in DOMAIN word |-> IF word[i] = "A" THEN "a" ELSE word[i]]

\* The words whose lower-cased form was not seen before, as they are spelled.
RECURSIVE Unique(_, _)
Unique(words, seen) ==
    IF words = <<>> THEN <<>>
    ELSE IF LowerText(Head(words)) \in seen THEN Unique(Tail(words), seen)
    ELSE <<Head(words)>> \o Unique(Tail(words), seen \cup {LowerText(Head(words))})

\* SearcherNode._normalize_query
NormalizeQuery(q) ==
    LET norm == JoinWith(Unique(SplitBlanks(StripQuotes(Strip(q)), <<>>), {}), <<" ">>)
    IN  IF Len(norm) > NormalizedMax THEN SubSeq(norm, 1, NormalizedMax) ELSE norm

\* SearcherNode._is_duplicate
IsDuplicate(q, recent) == \E i \in DOMAIN recent : recent[i] = q

\* SearcherNode._record_query
RecordQuery(q, recent) ==
    LET appended == Append(recent, q)
    IN  IF Len(appended) > RecentQueriesMax
        THEN SubSeq(appended, Len(appended) - RecentQueriesMax + 1, Len(appended))
        ELSE appended

\* What one call of ddgs.text does: it raises, or gives results that format
\* to a text (the empty text for no result).
SearchReplies == [raised : BOOLEAN, results : {<<>>, <<"r">>}]

\* random.uniform(0, 0.4), in tenths of a second: the two ends.
Jitters == {0, JitterTenths}

\* Attempts sleeping the same base time before every retry.
RECURSIVE AttemptsFlatBackoff(_, _, _, _, _)
AttemptsFlatBackoff(norm_query, attempt, backoff, replies, jitters) ==
    LET call == Event("text", norm_query)
    IN  IF ~replies[attempt].raised
        THEN [log |-> <<call, Event("record", norm_query)>>,
              res |-> replies[attempt].results, recorded |-> TRUE]
        ELSE IF attempt = SearchAttempts
        THEN [log |-> <<call>>, res |-> <<>>, recorded |-> FALSE]
        ELSE LET rest == AttemptsFlatBackoff(norm_query, attempt + 1, backoff, replies, jitters)
             IN  [log |-> <<call, Event("sleep", backoff + jitters[attempt])>> \o rest.log,
                  res |-> rest.res, recorded |-> rest.recorded]

\* The loop of _search_web from `attempt` on, `backoff` in tenths of a
\* second: the calls, sleeps and recording made, the text returned.
RECURSIVE Attempts(_, _, _, _, _)
Attempts(norm_query, attempt, backoff, replies, jitters) ==
    LET call == Event("text", norm_query)
    IN  IF ~replies[attempt].raised
        THEN [log |-> <<call, Event("record", norm_query)>>,
              res |-> replies[attempt].results, recorded |-> TRUE]
        ELSE IF attempt = SearchAttempts
        THEN [log |-> <<call>>, res |-> <<>>, recorded |-> FALSE]
        ELSE LET rest == Attempts(norm_query, attempt + 1, backoff * 2, replies, jitters)
             IN  [log |-> <<call, Event("sleep", backoff + jitters[attempt])>> \o rest.log,
                  res |-> rest.res, recorded |-> rest.recorded]

\* SearcherNode._search_web
SearchWeb(query, recent, replies, jitters) ==
    LET norm_query == NormalizeQuery(query)
    IN  IF IsDuplicate(norm_query, recent)
        THEN [log |-> <<>>, res |-> <<>>, recent |-> recent]
        ELSE LET done == Attempts(norm_query, 1, BaseBackoffTenths, replies, jitters)
             IN  [log |-> done.log, res |-> done.res,
                  recent |-> IF done.recorded THEN RecordQuery(norm_query, recent)
                             ELSE recent]

\* "\nRESULTS: "
ResultsHeader == <<"\n", "R", "E", "S", "U", "L", "T", "S", ":", " ">>

\* One execution: prep, exec and post.
Search ==
    /\ current = "Search"
    /\ \E replies \in [1..SearchAttempts -> SearchReplies],
          jitters \in [1..SearchAttempts -> Jitters] :
          LET done == SearchWeb(search_query, recent_queries, replies, jitters)
          IN  /\ log' = done.log \o <<Event("return", done.res)>>
              /\ recent_queries' = done.recent
              /\ context' = context \o SearchMarker \o <<" ">> \o search_query \o
                            ResultsHeader \o done.res
    /\ SupervisedOrch("Search", "decide")
    /\ UNCHANGED <<answer, answer_ls, search_query>>
    /\ UNCHANGED pipeline_vars

\* ---- the Searcher on its own --------------------------------------------------
\* One execution on any query, the class having recorded no query, one or two.
RecentLists == {<<>>, <<<<"a">>>>, <<<<"A">>, <<"a", " ", "\"">>>>}

SearcherInit ==
    /\ current = "Search"
    /\ executed = "Decide"
    /\ last_action = "search"
    /\ aborted = FALSE
    /\ PipelineIdle
    /\ context = <<>>
    /\ answer = NoAnswer
    /\ answer_ls = <<>>
    /\ search_query \in Queries
    /\ recent_queries \in RecentLists
    /\ log = <<>>

SearcherNext == Search

SearcherSpec == SearcherInit /\ [][SearcherNext]_vars

\* ---- DeciderNode ------------------------------------------------------------
\* What the model answers when asked for the next action: the action, which
\* the prompt asks to be search or answer, and a query.
FlowQueries == {<<"a">>, <<"A">>}

DeciderReplies == [action : {"search", "answer", "finish"}, search_query : FlowQueries]

\* The searches the context holds.
Searches(text) == Cardinality(MarkerPlaces(text))

\* One execution: post keeps the query of a search and returns the action as
\* the model named it. A run makes at most MaxSearches searches.
Decide ==
    /\ current = "Decide"
    /\ \E exec_res \in DeciderReplies :
          /\ exec_res.action = "search" => Searches(context) < MaxSearches
          /\ search_query' = IF exec_res.action = "search" THEN exec_res.search_query
                             ELSE search_query
          /\ SupervisedOrch("Decide", exec_res.action)
    /\ log' = <<>>
    /\ UNCHANGED <<context, answer, answer_ls, recent_queries>>
    /\ UNCHANGED pipeline_vars

\* ---- SupervisorNode ---------------------------------------------------------
\* "\n\nNOTE: ", the head of the note on a rejected answer, and the reason
\* the model gave.
NoteHeader == <<"\n", "\n", "N", "O", "T", "E", ":", " ">>

Reason == <<"x">>

\* The rejections the context holds.
Rejections(text) ==
    Cardinality({i \in 1..Len(text) :
                    /\ i + Len(NoteHeader) - 1 <= Len(text)
                    /\ SubSeq(text, i, i + Len(NoteHeader) - 1) = NoteHeader})

\* One execution: the model finds the answer valid or not; post lets a valid
\* answer be, and for the other clears the answer, notes the rejection in the
\* context and returns retry. A run makes at most MaxRejections rejections.
Supervise ==
    /\ current = "Supervise"
    /\ \E valid \in BOOLEAN :
          /\ ~valid => Rejections(context) < MaxRejections
          /\ log' = <<Event("valid", valid)>>
          /\ IF valid
             THEN /\ SupervisedOrch("Supervise", "none")
                  /\ UNCHANGED <<answer, context>>
             ELSE /\ SupervisedOrch("Supervise", "retry")
                  /\ answer' = NoneAnswer
                  /\ context' = context \o NoteHeader \o Reason
    /\ UNCHANGED <<answer_ls, search_query, recent_queries>>
    /\ UNCHANGED pipeline_vars

\* TerminalNode: a node that does nothing and has no edge.
Terminal ==
    /\ current = "Terminal"
    /\ SupervisedOrch("Terminal", "none")
    /\ log' = <<>>
    /\ UNCHANGED supervisor_vars
    /\ UNCHANGED pipeline_vars

\* ---- the run of the supervised flow -------------------------------------------
FlowReplies ==
    {[answer_text |-> <<" ", "a">>, finish_reason |-> "stop"],
     [answer_text |-> <<"b">>, finish_reason |-> "stop"],
     [answer_text |-> <<" ">>, finish_reason |-> "stop"],
     [answer_text |-> <<"b">>, finish_reason |-> "length"]}

FlowInit ==
    /\ current = Enter("AgentFlow")
    /\ executed = "none"
    /\ last_action = "none"
    /\ aborted = FALSE
    /\ PipelineIdle
    /\ context = <<>>
    /\ answer = NoAnswer
    /\ answer_ls = <<>>
    /\ search_query = <<>>
    /\ recent_queries = <<>>
    /\ log = <<>>

AnswerFlow == AnswerWith(FlowReplies)

FlowNext ==
    \/ Decide
    \/ Search
    \/ AnswerFlow
    \/ Supervise
    \/ Terminal

FlowSpec == FlowInit /\ [][FlowNext]_vars

\* ---- _compact_context on its own --------------------------------------------
\* The function applied to contexts made of up to MaxSegments pieces: runs of
\* ordinary characters of several lengths around MAX_CONTEXT_CHARS, markers
\* and a bare "SEARCH:".
RunLengths ==
    {10, 2600, MAX_CONTEXT_CHARS - 10, MAX_CONTEXT_CHARS + 1}

Pieces == {Text(n) : n \in RunLengths} \cup {SearchMarker, SearchPrefix}

Contexts == {Flatten(pieces) : pieces \in BoundedSeq(Pieces, MaxSegments)}

ContextInit ==
    /\ current = "_compact_context"
    /\ executed = "none"
    /\ last_action = "none"
    /\ aborted = FALSE
    /\ PipelineIdle
    /\ context \in Contexts
    /\ answer = NoAnswer
    /\ answer_ls = <<>>
    /\ search_query = <<>>
    /\ recent_queries = <<>>
    /\ log = <<>>

CompactContext ==
    /\ current = "_compact_context"
    /\ log' = <<Event("_compact_context", compact_context(context))>>
    /\ executed' = "_compact_context"
    /\ current' = "none"
    /\ UNCHANGED <<last_action, aborted>>
    /\ UNCHANGED pipeline_vars
    /\ UNCHANGED supervisor_vars

ContextNext == CompactContext

ContextSpec == ContextInit /\ [][ContextNext]_vars

\* ---- properties -----------------------------------------------------------
Last(q) == q[Len(q)]

UrlSeq(h) == [i \in DOMAIN h |-> h[i].url]

Range(q) == {q[i] : i \in DOMAIN q}

\* A step is an execution of the Retriever iff it appends a note.
RetrieverStep == Len(notes') = Len(notes) + 1

\* C1: depth bound. In every state of a run current_depth <= max_depth.
DepthBound == current_depth <= max_depth

\* C2: once Compact has returned proceed_anyway, no later step of the run
\* executes Compact again.
ProceedAnywayEndsCompaction == [][proceeded => executed' # "Compact"]_vars

\* C3: memory invariant. No two entries of memory.hits carry the same URL.
HitsUniqueByUrl == UniqueByUrl(hits)

\* C4: dedup idempotence of the merge. Started on a memory with unique URLs,
\* the URLs stay unique whatever is merged, and merging the result list just
\* merged a second time adds no hit and leaves the sequence of URLs as it is.
MergeIdempotent ==
    /\ UniqueByUrl(hits)
    /\ notes # <<>> =>
          LET again == Merge(hits, retrieved)
          IN  /\ again.added = 0
              /\ UrlSeq(again.hits) = UrlSeq(hits)

\* C4 witness: a second execution has merged a list that repeats one new
\* URL into a memory that held another hit, and it added one hit.
MergeIdempotentWitness ==
    /\ notes # <<>>
    /\ Len(retrieved) = 2
    /\ retrieved[1].url = retrieved[2].url
    /\ retrieved[1].url # NoUrl
    /\ Last(notes).added = 1
    /\ Len(hits) = 2
    /\ Len(notes) = 2

\* C5: upgrade rule. An execution of the Retriever changes the summary
\* (conversation) of an existing hit only from empty to a non-empty value
\* that a result with the hit's URL carries; a non-empty field is kept.
UpgradeOnlyEmpty ==
    [][RetrieverStep =>
          \A i \in DOMAIN hits :
             /\ hits'[i].summary # hits[i].summary =>
                   /\ hits[i].summary = Empty
                   /\ hits'[i].summary # Empty
                   /\ \E j \in DOMAIN retrieved' :
                         /\ retrieved'[j].url = hits[i].url
                         /\ retrieved'[j].summary = hits'[i].summary
             /\ hits'[i].conversation # hits[i].conversation =>
                   /\ hits[i].conversation = Empty
                   /\ hits'[i].conversation # Empty
                   /\ \E j \in DOMAIN retrieved' :
                         /\ retrieved'[j].url = hits[i].url
                         /\ retrieved'[j].conversation = hits'[i].conversation]_vars

\* C5 witness: a result offered another summary and a conversation for a hit
\* that had a summary and no conversation: the summary was kept and the
\* conversation taken.
UpgradeOnlyEmptyWitness ==
    \E i \in DOMAIN hits : \E j \in DOMAIN retrieved :
       /\ retrieved[j].url = hits[i].url
       /\ retrieved[j].summary = SearchSummary
       /\ retrieved[j].conversation = OtherBody
       /\ hits[i].summary = InitialSummary
       /\ hits[i].conversation = OtherBody
       /\ hits[i].score = DefaultScore

\* C6: continuation rule. The Retriever returns `continue` exactly when the
\* incremented depth is below max_depth and the execution added a new unique
\* hit, and `final` in every other case.
ContinuationRule ==
    executed = "Retrieve" =>
       /\ last_action \in {"continue", "final"}
       /\ last_action = "continue" <=>
             (current_depth < max_depth /\ Last(notes).added > 0)
       /\ next_search_plans = <<>> => last_action = "final"

\* C6 witness: depth is left, nothing new was found, the token is `final`.
ContinuationRuleWitness ==
    /\ executed = "Retrieve"
    /\ current_depth < max_depth
    /\ retrieved # <<>>
    /\ Last(notes).added = 0
    /\ last_action = "final"

\* C7: an execution of the Retriever adds 1 to current_depth and adds to
\* memory.hits as many hits as its results hold distinct URLs the memory
\* did not hold (scenario A: two new URLs at max_depth 1 give two hits,
\* depth 1 and `final`).
RetrieveCounts ==
    [][RetrieverStep =>
          /\ current_depth' = current_depth + 1
          /\ Len(hits') = Len(hits)
                + Cardinality((UrlsOf(retrieved') \ {NoUrl}) \ UrlsOf(hits))
          /\ (hits = <<>> /\ max_depth = 1 /\ current_depth = 0
              /\ UrlSeq(retrieved') = <<1, 2>>) =>
                (Len(hits') = 2 /\ current_depth' = 1 /\ last_action' = "final")]_vars

\* C7 witness: scenario A has happened.
RetrieveCountsWitness ==
    /\ executed = "Retrieve"
    /\ max_depth = 1
    /\ current_depth = 1
    /\ UrlSeq(retrieved) = <<1, 2>>
    /\ Len(notes) = 1
    /\ Last(notes).added = 2
    /\ Last(notes).total = 2
    /\ UrlSeq(hits) = <<1, 2>>
    /\ last_action = "final"

\* C8: verification aggregate. The three lists of the recorded
\* claim_verification add up to total_claims.
VerificationAggregate ==
    claim_verification # None =>
       LET cv == claim_verification[1]
       IN  Len(cv.supported_claims) + Len(cv.unsupported_claims)
             + Len(cv.insufficient_claims) = cv.total_claims

\* A result whose claim was not found supported: contradicted or insufficient,
\* for which the sequential node also writes "unsupported" (the results of
\* the parallel node carry supported = True and no status).
NotFoundSupported(d) == d.status \in {"unsupported", "contradicted", "insufficient"}

\* C9: after the verifier, unsupported_claims holds exactly the claims found
\* contradicted and the claims found insufficient, that is every claim that
\* was not found supported.
UnsupportedClaimsExposed ==
    claim_verification # None =>
       Range(unsupported_claims) =
          {d.claim : d \in {x \in Range(claim_verification[1].details) :
                               NotFoundSupported(x)}}

\* C10: routing of the verifier. The token is `fix` when some claim was not
\* found supported and `ok` only when every claim was.
VerifierRouting ==
    executed = "Verify" =>
       (last_action = "fix" <=>
           \E d \in Range(claim_verification[1].details) : NotFoundSupported(d))

\* An exception text of one of the two recoverable classes.
RecoverableText(msg) ==
    \/ Contains(Lower(msg), <<"context", "too", "large">>)
    \/ Contains(Lower(msg), <<"rate", "limit">>)

\* C11: error classification of the Reporter. When the reasoning call raises
\* a text that holds "context too large" or "rate limit" in any case, the
\* Reporter returns `compact` and the run goes on in Compact; when it raises
\* any other text the run is aborted there: no token, no next node, no sleep
\* and nothing written.
ReporterClassification ==
    [][(current = "Report" /\ llm_error' # None) =>
          IF RecoverableText(llm_error'[1])
          THEN /\ last_action' = "compact"
               /\ current' = "Compact"
               /\ ~aborted'
          ELSE /\ aborted'
               /\ current' = "none"
               /\ UNCHANGED <<last_action, slept, compaction_attempts, hits,
                              draft_answer, last_context_error, final_report,
                              claim_verification_completed>>]_vars

\* C11 witness: a rate-limit text spelled with capitals inside a longer text
\* was raised and the Reporter returned `compact`.
ReporterClassificationWitness ==
    /\ executed = "Report"
    /\ llm_error = Some(<<"HTTP", "429", "Rate", "Limit", "Exceeded">>)
    /\ last_action = "compact"
    /\ current = "Compact"

\* C12: verification happens at most once in a run. The first Reporter
\* execution that obtains a draft returns `verify`, every later one that
\* obtains a draft returns `complete`, and Verify never runs a second time.
VerifyOnce ==
    /\ [](current = "Verify" => claim_verification = None)
    /\ [][(current = "Report" /\ llm_error' = None) =>
             /\ draft_answer = Unset => last_action' = "verify"
             /\ draft_answer # Unset => last_action' = "complete"]_vars

\* C12 witness: the verifier asked for a fix, the run re-planned and
\* retrieved, Compact returned proceed_anyway, and the Reporter returned
\* `complete`.
VerifyOnceWitness ==
    /\ executed = "Report"
    /\ last_action = "complete"
    /\ claim_verification # None
    /\ claim_verification[1].insufficient_claims # <<>>
    /\ Len(notes) >= 2
    /\ proceeded

\* C13: guard on a small memory (scenario D). Compact executed on a memory
\* of 3 hits or fewer returns `proceed_anyway` and changes nothing: the hits
\* stay as they are, compaction_attempts is not incremented, no sleep is made.
CompactionGuard ==
    [][(current = "Compact" /\ Len(hits) <= 3) =>
          /\ last_action' = "proceed_anyway"
          /\ current' = "Report"
          /\ UNCHANGED <<hits, compaction_attempts, slept, compacted_len, notes,
                         search_queries, current_depth, next_search_plans,
                         claim_verification, unsupported_claims, draft_answer,
                         final_report>>]_vars

\* C13 witness: scenario D has happened on a memory of exactly 3 hits.
CompactionGuardWitness ==
    /\ executed = "Compact"
    /\ last_action = "proceed_anyway"
    /\ Len(hits) = 3
    /\ compaction_attempts = 0
    /\ slept = 0
    /\ llm_error # None

\* C14: compaction attempts are bounded. compaction_attempts never exceeds
\* 3; Compact executed with the attempts used up returns `proceed_anyway` and
\* changes neither the hits nor the counter; a pass that returns `retry` adds
\* exactly 1 to the counter, so `retry` is returned (and slept after) at most
\* 3 times.
CompactionBounded ==
    /\ [](compaction_attempts <= 3 /\ slept <= 3)
    /\ [][current = "Compact" =>
             /\ compaction_attempts >= 3 =>
                   /\ last_action' = "proceed_anyway"
                   /\ UNCHANGED <<hits, compaction_attempts>>
             /\ last_action' = "retry" =>
                   /\ compaction_attempts' = compaction_attempts + 1
                   /\ slept' = slept + 1
             /\ last_action' # "retry" => UNCHANGED <<compaction_attempts, slept>>]_vars

\* C14 witness: Compact was executed after three passes on a memory that had
\* grown above 3 hits again, and returned `proceed_anyway`.
CompactionBoundedWitness ==
    /\ executed = "Compact"
    /\ last_action = "proceed_anyway"
    /\ compaction_attempts = 3
    /\ slept = 3
    /\ Len(hits) > 3

\* C15: compaction monotonicity. A compaction pass that is performed (more
\* than 3 hits, attempts left) ends with strictly fewer hits than it started
\* with, and with no more hits than the pass before it ended with.
CompactionMonotone ==
    [][(current = "Compact" /\ Len(hits) > 3 /\ compaction_attempts < 3) =>
          /\ Len(hits') < Len(hits)
          /\ compacted_len # None => Len(hits') <= compacted_len[1]]_vars

\* The text of an exception holds "rate limit exceeded".
RateLimitExceeded(err) ==
    err # None /\ Contains(Lower(err[1]), <<"rate", "limit", "exceeded">>)

\* C16: scenario C. In a run with compaction_attempts = 0, when the reasoning
\* call raises "rate limit exceeded" the Reporter returns `compact`, Compact is
\* the next node executed, and after it compaction_attempts = 1.
RateLimitCompacts ==
    [][/\ (current = "Report" /\ compaction_attempts = 0 /\ RateLimitExceeded(llm_error')) =>
             (last_action' = "compact" /\ current' = "Compact")
       /\ (current = "Compact" /\ compaction_attempts = 0 /\ RateLimitExceeded(llm_error)) =>
             compaction_attempts' = 1]_vars

\* C16 as the code has it: the same, for a memory of more than 3 hits; on a
\* memory of 3 hits or fewer Compact leaves compaction_attempts at 0.
RateLimitCompactsLargeMemory ==
    [][/\ (current = "Report" /\ compaction_attempts = 0 /\ RateLimitExceeded(llm_error')) =>
             (last_action' = "compact" /\ current' = "Compact")
       /\ (current = "Compact" /\ compaction_attempts = 0 /\ RateLimitExceeded(llm_error)) =>
             IF Len(hits) > 3 THEN compaction_attempts' = 1 /\ last_action' = "retry"
             ELSE compaction_attempts' = 0 /\ last_action' = "proceed_anyway"]_vars

\* C16 witness: the first pass was made after "rate limit exceeded".
RateLimitCompactsWitness ==
    /\ executed = "Compact"
    /\ last_action = "retry"
    /\ compaction_attempts = 1
    /\ slept = 1
    /\ llm_error = Some(<<"rate", "limit", "exceeded">>)
    /\ compacted_len # None

\* The transition table: node, token, next node.
InTable(node, token, next) ==
    \/ node = "Initial" /\ next = "Clarify"
    \/ node = "Clarify" /\ next = "Plan"
    \/ node = "Plan" /\ next = "Retrieve"
    \/ node = "Retrieve" /\ token = "continue" /\ next = "Plan"
    \/ node = "Retrieve" /\ token = "final" /\ next = "Report"
    \/ node = "Report" /\ token = "verify" /\ next = "Verify"
    \/ node = "Report" /\ token = "compact" /\ next = "Compact"
    \/ node = "Report" /\ token = "complete" /\ next = "End"
    \/ node = "Verify" /\ token = "fix" /\ next = "Plan"
    \/ node = "Verify" /\ token = "ok" /\ next = "Report"
    \/ node = "Compact" /\ token \in {"retry", "proceed_anyway"} /\ next = "Report"
    \/ node = "End" /\ next = "none"

DepthStop ==
    [][(current = "Plan" /\ current_depth >= max_depth /\ unsupported_claims = <<>>) =>
          /\ last_action' = "final"
          /\ UNCHANGED next_search_plans
          /\ current' = "Report"]_vars

ResultReturned ==
    executed = "End" =>
       returned = (IF final_report # None THEN "final_report" ELSE "shared")

\* A text of blanks only, the empty text included.
BlankRequest(text) == \A i \in DOMAIN text : text[i] = " "

UnsupportedSurfaced ==
    (final_report # None /\ claim_verification # None) =>
        \A d \in Range(claim_verification[1].details) :
            NotFoundSupported(d) => d.claim \in Range(final_report[1].unsupported_claims)

\* C23: heuristic on verification failure. A claim for which the reasoning
\* call failed or gave no parseable classification is marked supported when
\* one of its evidence snippets has a score above 0.75, and insufficient
\* otherwise.
HeuristicOnFailure ==
    (executed = "Verify" /\ ~parallel) =>
        \A i \in DOMAIN log :
            (log[i].op = "verify" /\ log[i].arg.response \in {"unparseable", "error"}) =>
                LET d == claim_verification[1].details[i]
                IN  d.status = IF \E j \in DOMAIN d.evidence : d.evidence[j] > 75
                               THEN "supported" ELSE "insufficient"

Appended(item) == \E j \in DOMAIN log : log[j].op = "append" /\ log[j].arg = item

\* C25: partial failure is isolated in the Retriever. After an execution in
\* which calls raised, the node has incremented current_depth and returned
\* `continue` or `final`, the run is not aborted, a plan whose search raised
\* and an item whose conversation fetch or summary generation raised have
\* contributed no result, and every result of the other plans is in memory.
PartialFailureIsolated ==
    executed = "Retrieve" =>
        /\ ~aborted
        /\ current_depth = 1
        /\ last_action \in {"continue", "final"}
        /\ \A i \in DOMAIN log :
               (log[i].op = "search" /\ log[i].arg.raised) =>
                   ~\E k \in 1..MaxFound : Appended(Item(log[i].arg.plan, k))
        /\ \A i \in DOMAIN log :
               (log[i].op \in {"fetch", "summarize"} /\ log[i].arg.raised) =>
                   ~Appended(log[i].arg.item)
        /\ \A k \in DOMAIN retrieved :
               retrieved[k].url # NoUrl => retrieved[k].url \in UrlsOf(hits)

\* The places of the log that hold the operation.
Places(op) == {k \in DOMAIN log : log[k].op = op}

\* C26: backoff ordering. A Compact execution that made a compaction pass
\* removed the hits and incremented compaction_attempts first, then slept
\* once, for 60 seconds, and returned `retry` last; an execution that
\* returned `proceed_anyway` did not sleep. No step of Compact hands the run
\* back with `retry` without having slept.
BackoffOrdering ==
    /\ [](executed = "Compact" =>
            IF last_action = "retry"
            THEN /\ Cardinality(Places("sleep")) = 1
                 /\ \A s \in Places("sleep") :
                        /\ log[s].arg = 60
                        /\ \E r \in Places("remove") : r < s
                        /\ \E n \in Places("increment") : n < s
                        /\ Places("return") = {Len(log)}
                        /\ s < Len(log)
                 /\ log[Len(log)].arg = "retry"
            ELSE /\ last_action = "proceed_anyway"
                 /\ Places("sleep") = {}
                 /\ Places("remove") = {})
    /\ [][current = "Compact" =>
             slept' = slept + (IF last_action' = "retry" THEN 1 ELSE 0)]_vars

\* The second compaction pass of a run has been made and Compact returned
\* `retry`.
BackoffOrderingWitness ==
    /\ executed = "Compact"
    /\ last_action = "retry"
    /\ compaction_attempts = 2
    /\ Places("strip") # {}
    /\ slept = 2

Tokens == {"continue", "final", "compact", "retry", "verify", "ok", "fix", "complete",
           "proceed_anyway", "none"}

\* C28 as stated: closed token set. The value returned by the post of every
\* node executed in a run, End included, is one of the transition tokens or
\* nothing.
ClosedTokenSet == executed # "none" => last_action \in Tokens

\* C28: closed token set. The value returned by the post of every node
\* executed in a run other than End is one of the transition tokens or
\* nothing; the post of End returns the final report when shared holds one
\* and the shared state otherwise.
ClosedTokenSetBeforeEnd ==
    /\ executed \notin {"none", "End"} => last_action \in Tokens
    /\ executed = "End" =>
           last_action = IF final_report # None THEN "final_report" ELSE "shared"

\* End has run after a planned retrieval and a verification.
ClosedTokenSetWitness ==
    /\ executed = "End"
    /\ last_action = "final_report"
    /\ current_depth > 0
    /\ claim_verification # None

\* The least integer that is at least num / den.
Ceil(num, den) == CHOOSE k \in 0..num : k * den >= num /\ (k - 1) * den < num

\* The composite priority of the hit at place i of h, in tenths: 10 for a
\* summary, the score, and 0.1 for every place from i to the end.
Priority(h, i) ==
    (IF h[i].summary # Empty THEN 100 ELSE 0) + h[i].score + (Len(h) - i + 1)

\* C29: staged compaction amounts. A compaction pass on n > 3 hits removes
\* ceil(0.3 n) hits at attempt 0, ceil(0.5 n) at attempt 1 and all but
\* max(1, ceil(0.25 n)) from attempt 2 on, and no hit it removes had a
\* strictly higher composite priority than a hit it keeps.
StagedCompaction ==
    [][(current = "Compact" /\ compaction_attempts' = compaction_attempts + 1) =>
          LET n == Len(hits)
              kept == Ceil(n, 4)
              removed == {i \in DOMAIN hits : hits[i].url \notin UrlsOf(hits')}
          IN  /\ n > 3
              /\ UrlsOf(hits') \subseteq UrlsOf(hits)
              /\ Cardinality(removed) = n - Len(hits')
              /\ n - Len(hits') =
                     IF compaction_attempts = 0 THEN Ceil(3 * n, 10)
                     ELSE IF compaction_attempts = 1 THEN Ceil(n, 2)
                     ELSE n - (IF kept >= 1 THEN kept ELSE 1)
              /\ \A i \in removed : \A j \in DOMAIN hits \ removed :
                     Priority(hits, i) <= Priority(hits, j)]_vars

\* The third pass of a run has been made and the one hit it kept is not the
\* hit discovered first.
StagedCompactionWitness ==
    /\ executed = "Compact"
    /\ last_action = "retry"
    /\ compaction_attempts = 3
    /\ Len(hits) = 1
    /\ hits[1].url # 1

\* The place of the hit with URL u in h.
PlaceOf(h, u) == CHOOSE i \in DOMAIN h : h[i].url = u

\* C30: discovery order of memory.hits. No step of a run changes the
\* relative order of two hits that are in memory before and after it (new
\* hits are appended): the order of memory.hits stays the order of
\* discovery, also across a compaction pass.
DiscoveryOrder ==
    [][\A u, v \in UrlsOf(hits) \cap UrlsOf(hits') :
          PlaceOf(hits, u) < PlaceOf(hits, v) => PlaceOf(hits', u) < PlaceOf(hits', v)]_vars

\* The URLs of `results` that are not in `known`, each once, in the order of
\* their first occurrence.
RECURSIVE FirstNew(_, _)
FirstNew(results, known) ==
    IF results = <<>> THEN <<>>
    ELSE LET u == Head(results).url
         IN  IF u = NoUrl \/ u \in known THEN FirstNew(Tail(results), known)
             ELSE <<u>> \o FirstNew(Tail(results), known \cup {u})

\* C31: the merge is append-only. An execution of the Retriever keeps every
\* hit of the memory at its place with its URL and its score, and appends
\* the new URLs of its results after them, in the order in which the
\* results first show them.
MergeAppendOnly ==
    [][RetrieverStep =>
          /\ Len(hits') >= Len(hits)
          /\ \A i \in DOMAIN hits :
                 hits'[i].url = hits[i].url /\ hits'[i].score = hits[i].score
          /\ [k \in 1..(Len(hits') - Len(hits)) |-> hits'[Len(hits) + k].url]
                 = FirstNew(retrieved', UrlsOf(hits))]_vars

\* Two executions have each added one hit: URL 2 first, then URL 1 after it.
MergeAppendOnlyWitness ==
    /\ executed = "Retrieve"
    /\ Len(notes) = 2
    /\ notes[1].added = 1
    /\ notes[2].added = 1
    /\ UrlSeq(hits) = <<2, 1>>

\* C32: iteration notes. Every execution of the Retriever appends one note
\* and no other step touches the notes, so a run has as many notes as
\* Retriever executions; the note holds current_depth after the execution,
\* the number of hits the execution added and the size of the memory after
\* it.
IterationNotes ==
    /\ [](Len(notes) = current_depth)
    /\ [][IF current = "Retrieve"
          THEN /\ Len(notes') = Len(notes) + 1
               /\ SubSeq(notes', 1, Len(notes)) = notes
               /\ Last(notes').iteration = current_depth'
               /\ current_depth' = current_depth + 1
               /\ Last(notes').added = Len(hits') - Len(hits)
               /\ Last(notes').total = Len(hits')
          ELSE notes' = notes]_vars

\* The second Retriever execution of a run added one hit to a memory of two.
IterationNotesWitness ==
    /\ executed = "Retrieve"
    /\ Len(notes) = 2
    /\ notes[2].iteration = 2
    /\ notes[2].added = 1
    /\ notes[2].total = 3

\* C33: verifier fallback. When exec of the verifier raised, the recorded
\* results are one per prepared claim, each insufficient with no evidence,
\* all the claims are filed as insufficient, the token is `fix`, and the run
\* goes on in the planner instead of being aborted.
VerifierFallback ==
    (executed = "Verify" /\ Len(log) = 1 /\ log[1].op = "exec_fallback") =>
        LET cv == claim_verification[1]
        IN  /\ Len(cv.details) = cv.total_claims
            /\ cv.total_claims > 0
            /\ \A i \in DOMAIN cv.details :
                   cv.details[i].status = "insufficient" /\ cv.details[i].evidence = <<>>
            /\ cv.insufficient_claims = [i \in DOMAIN cv.details |-> cv.details[i].claim]
            /\ cv.supported_claims = <<>>
            /\ last_action = "fix"
            /\ ~aborted
            /\ current = "Plan"

\* exec raised on a single extracted claim.
VerifierFallbackWitness ==
    /\ executed = "Verify"
    /\ Len(log) = 1
    /\ log[1].op = "exec_fallback"
    /\ claim_verification[1].total_claims = 1
    /\ claim_verification[1].insufficient_claims = <<1>>
    /\ last_action = "fix"

\* C38: compaction only discards. A compaction pass leaves in memory only
\* hits that were there, each with the URL and the score it had, and leaves
\* at least one hit.
CompactionOnlyDiscards ==
    [][(current = "Compact" /\ compaction_attempts' = compaction_attempts + 1) =>
          /\ Len(hits') >= 1
          /\ Len(hits') <= Len(hits)
          /\ \A i \in DOMAIN hits' :
                 \E j \in DOMAIN hits :
                    hits[j].url = hits'[i].url /\ hits[j].score = hits'[i].score
          /\ \A i, j \in DOMAIN hits' : i # j => hits'[i].url # hits'[j].url]_vars

\* The third pass of a run left one hit, its conversation stripped.
CompactionOnlyDiscardsWitness ==
    /\ executed = "Compact"
    /\ compaction_attempts = 3
    /\ Len(hits) = 1
    /\ hits[1].conversation = Essential
    /\ compacted_len = Some(1)

\* C39: the Reporter writes the final report only in an execution that
\* returns `complete`. An execution that returns `compact` leaves the final
\* report, the draft answer and the verification flag as they were; one that
\* returns `verify` leaves the final report as it was; and when End is about
\* to run, the final report is present and carries the draft the last
\* execution of the Reporter wrote.
FinalReportOnlyOnComplete ==
    /\ [][(current = "Report" /\ executed' = "Report" /\ ~aborted') =>
             /\ last_action' \in {"compact", "verify", "complete"}
             /\ last_action' = "compact" =>
                    /\ final_report' = final_report
                    /\ draft_answer' = draft_answer
                    /\ claim_verification_completed' = claim_verification_completed
             /\ last_action' = "verify" => final_report' = final_report
             /\ last_action' = "complete" =>
                    /\ final_report' # None
                    /\ final_report'[1].draft = draft_answer'
             /\ final_report' # final_report => last_action' = "complete"]_vars
    /\ [][current # "Report" => final_report' = final_report /\ draft_answer' = draft_answer]_vars
    /\ [](current = "End" =>
             /\ executed = "Report" /\ last_action = "complete"
             /\ final_report # None
             /\ final_report[1].draft = draft_answer)

\* End is about to run on a final report whose draft is the second text,
\* written after a compaction pass.
FinalReportOnlyOnCompleteWitness ==
    /\ current = "End"
    /\ final_report # None
    /\ final_report[1].draft = "redraft"
    /\ compaction_attempts > 0

\* C40: _compact_context respects its target size. A context of at most
\* MAX_CONTEXT_CHARS characters comes back as it is with the flag false; a
\* longer one comes back with the flag true and, notice header and separators
\* included, at most MAX_CONTEXT_CHARS characters long.
CompactContextWithinLimit ==
    (executed = "_compact_context" /\ Len(log) = 1 /\ log[1].op = "_compact_context") =>
        LET res == log[1].arg
        IN  IF Len(context) <= MAX_CONTEXT_CHARS
            THEN res.context = context /\ ~res.was_compacted
            ELSE res.was_compacted /\ Len(res.context) <= MAX_CONTEXT_CHARS

\* The text is made of blanks only (or is empty).
Blank(text) == \A i \in DOMAIN text : text[i] = " "

\* `inner` is `outer` without blanks before and after it.
Trimmed(inner, outer) ==
    /\ inner # <<>>
    /\ inner[1] # " " /\ inner[Len(inner)] # " "
    /\ \E k \in 0..(Len(outer) - Len(inner)) :
          /\ SubSeq(outer, k + 1, k + Len(inner)) = inner
          /\ Blank(SubSeq(outer, 1, k))
          /\ Blank(SubSeq(outer, k + Len(inner) + 1, Len(outer)))

\* The calls an execution of the Answerer made, from its log.
AnswererCalls == SubSeq(log, 1, Len(log) - 1)

\* C34: the staged retry order of the Answerer. One execution makes one, two
\* or three calls: the first with the full context and the base token limit,
\* the second with the full context and the doubled limit, the third with the
\* compacted context and the doubled limit; the second only after a first
\* that finished with reason length, the third only after a second that gave
\* no acceptable answer.
StagedRetryOrder ==
    (executed = "Answer" /\ log # <<>>) =>
        LET calls == AnswererCalls
            n == Len(calls)
        IN  /\ n \in 1..3
            /\ \A k \in 1..n : calls[k].op = "generate"
            /\ log[Len(log)].op \in {"return", "raise"}
            /\ calls[1].arg.context = context
            /\ calls[1].arg.max_tokens = BASE_MAX_TOKENS
            /\ n >= 2 =>
                  /\ calls[2].arg.context = context
                  /\ calls[2].arg.max_tokens = 2 * BASE_MAX_TOKENS
                  /\ calls[1].arg.finish_reason = "length"
            /\ n = 3 =>
                  /\ calls[3].arg.context = compact_context(context).context
                  /\ calls[3].arg.max_tokens = 2 * BASE_MAX_TOKENS
                  /\ \/ calls[2].arg.finish_reason = "length"
                     \/ Blank(calls[2].arg.answer_text)

\* The third call got a context that the compaction had shortened, and its
\* answer was returned.
StagedRetryOrderWitness ==
    /\ executed = "Answer"
    /\ Len(log) = 4
    /\ log[1].op = "generate"
    /\ log[3].op = "generate"
    /\ Len(log[3].arg.context) < Len(context)
    /\ log[4].op = "return"

Ops(op) == SelectSeq(log, LAMBDA e : e.op = op)

\* The query, cleaned as the Searcher cleans it, is one of `recent`.
Known(q, recent) == \E i \in DOMAIN recent : recent[i] = NormalizeQuery(q)

\* C36: the retry of the Searcher is bounded and never fatal. An execution
\* calls the search at most 3 times, sleeps between two calls 1 s and then
\* 2 s plus a jitter of at most 0.4 s, returns the empty text when the third
\* call fails too, calls nothing and returns the empty text for a query whose
\* normalised form is among the recent queries, and always returns `decide`.
SearcherRetryBounded ==
    /\ []((executed = "Search" /\ log # <<>>) =>
            LET calls == Ops("text")
                sleeps == Ops("sleep")
                final == log[Len(log)]
            IN  /\ Len(calls) <= 3
                /\ Len(sleeps) <= 2
                /\ Len(calls) > 0 => Len(sleeps) = Len(calls) - 1
                /\ \A k \in DOMAIN sleeps :
                      /\ sleeps[k].arg >= (IF k = 1 THEN 10 ELSE 20)
                      /\ sleeps[k].arg <= (IF k = 1 THEN 14 ELSE 24)
                      /\ log[2 * k - 1].op = "text" /\ log[2 * k].op = "sleep"
                      /\ log[2 * k + 1].op = "text"
                /\ final.op = "return"
                /\ (Len(calls) = 3 /\ Ops("record") = <<>>) => final.arg = <<>>
                /\ ~aborted
                /\ last_action = "decide")
    /\ [][(current = "Search" /\ Known(search_query, recent_queries)) =>
             /\ log' = <<[op |-> "return", arg |-> <<>>]>>
             /\ recent_queries' = recent_queries
             /\ last_action' = "decide"]_vars

\* Three calls failed, with sleeps of 1.4 s and 2 s between them, and the
\* Searcher returned the empty text and `decide`.
SearcherRetryBoundedWitness ==
    /\ executed = "Search"
    /\ Len(log) = 6
    /\ log[2].op = "sleep" /\ log[2].arg = 14
    /\ log[4].op = "sleep" /\ log[4].arg = 20
    /\ log[5].op = "text"
    /\ log[6].op = "return" /\ log[6].arg = <<>>
    /\ last_action = "decide"

\* The supervised flow has come to its end.
FlowEnded == current = "none" /\ executed = "Terminal" /\ ~aborted

\* C37: the supervision loop. A rejection clears shared["answer"], adds a
\* note to shared["context"] and returns retry, which leads back into the
\* inner flow; an approval returns no token, leaves the answer and the
\* context as they are and leads to the end; and when the flow has ended the
\* answer in the store is the last answer produced and the one approved.
SupervisionLoop ==
    /\ [][(current = "Supervise" /\ last_action' = "retry") =>
             /\ answer' = [kind |-> "None", text |-> <<>>]
             /\ Len(context') > Len(context)
             /\ SubSeq(context', 1, Len(context)) = context
             /\ current' = "Decide"]_vars
    /\ [][(current = "Supervise" /\ last_action' = "none") =>
             /\ answer' = answer
             /\ context' = context
             /\ current' = "Terminal"]_vars
    /\ [](FlowEnded =>
             /\ answer_ls # <<>>
             /\ answer = [kind |-> "str", text |-> answer_ls[Len(answer_ls)]])

\* The loop as far as it holds: as above, for the runs whose Decider was
\* last told to answer.
SupervisionLoopAnswered ==
    /\ [][(current = "Supervise" /\ last_action' = "retry") =>
             /\ answer' = [kind |-> "None", text |-> <<>>]
             /\ Len(context') > Len(context)
             /\ SubSeq(context', 1, Len(context)) = context
             /\ current' = "Decide"]_vars
    /\ [][(current = "Supervise" /\ last_action' = "none") =>
             /\ answer' = answer
             /\ context' = context
             /\ current' = "Terminal"]_vars
    /\ [][(current = "Supervise" /\ executed = "Answer" /\ last_action' = "none") =>
             /\ answer_ls # <<>>
             /\ answer' = [kind |-> "str", text |-> answer_ls[Len(answer_ls)]]]_vars

====
